---- MODULE Spec2Model ----
(***************************************************************************)
(* Model of the authentication, authorization and throttling pipeline of   *)
(* the product-management API (gin middlewares, AuthService, AuthHandler). *)
(*                                                                         *)
(* Time is an integer clock `now`.  For the throttle one tick is an        *)
(* arbitrary unit and `window` is a number of ticks; for tokens one tick   *)
(* is one day (access tokens live 1 tick, refresh tokens 7).               *)
(*                                                                         *)
(* The router of main follows one request (login, me) through its chain of *)
(* handlers.                                                               *)
(*                                                                         *)
(* Further engines serve requests concurrently, one worker per request:    *)
(* the admin routes and UpdatePassword, Register and UpdateUser, the        *)
(* wishlist and review routes; their handlers reach the store statement by *)
(* statement.                                                              *)
(* database.Connect is modelled as the loop it is.                         *)
(***************************************************************************)
EXTENDS Integers, Sequences, FiniteSets, TLC

(***************************************************************************)
(* Bounds of the model                                                     *)
(***************************************************************************)
MaxTime == 3
MaxLimit == 2
MaxWindow == 2
MaxLog == 4
NumReq == 2
MaxConcLog == 2
MaxDay == 2
MaxWait == 1
MaxRows == 2

IPs == {"ipA", "ipB"}
ReqIds == 1..NumReq
Limits == (-1)..MaxLimit
Windows == 1..MaxWindow

None == "none"

VARIABLES
    now,            \* wall clock (time.Now())
    limit,          \* RateLimitMiddleware argument
    window,         \* RateLimitMiddleware argument
    requests,       \* map[string]int        (logger.go:132)
    lastReset,      \* map[string]time.Time  (logger.go:133)
    crashed,        \* the runtime stopped the process (concurrent map access)
    log,            \* per client key: the responses given, in order
    sinceReset,     \* per client key: requests admitted since the last reset
    tpc,            \* concurrent throttle: position of each in-flight request
    tip,            \* concurrent throttle: ip := c.ClientIP()
    tnow,           \* concurrent throttle: now := time.Now()
    tcnt,           \* concurrent throttle: value read by requests[ip]++
    c,              \* the gin.Context of the request that is followed
    engine,         \* which gin engine serves: the router of main, or a bare
                    \* engine carrying one middleware in front of a handler
    env,            \* process environment (os.Getenv)
    users,          \* table users
    sessions,       \* the token pair returned by the client's last login
    procs,          \* concurrent engines: the request each worker is serving,
                    \* with its own gin.Context and the handler's position
    wishlists,      \* table wishlists
    reviews,        \* table reviews
    conn            \* database.Connect: its loop variables and its outcome

throttleVars == <<limit, window, requests, lastReset, crashed, log, sinceReset>>
workerVars == <<tpc, tip, tnow, tcnt>>
authVars == <<engine, env, users, sessions>>
svcVars == <<procs, wishlists, reviews, conn>>
vars == <<now, limit, window, requests, lastReset, crashed, log, sinceReset,
          tpc, tip, tnow, tcnt, c, engine, env, users, sessions,
          procs, wishlists, reviews, conn>>

(***************************************************************************)
(* Go maps: a missing key reads as the zero value, a write creates the key *)
(***************************************************************************)
MapGet(m, k) == IF k \in DOMAIN m THEN m[k] ELSE 0

MapSet(m, k, v) == [x \in (DOMAIN m) \cup {k} |-> IF x = k THEN v ELSE m[x]]

EmptyMap == [x \in {} |-> 0]

(***************************************************************************)
(* Values: JSON claims and context keys carry their dynamic type           *)
(***************************************************************************)
Absent == [type |-> "absent", num |-> 0, str |-> <<>>]
Num(n) == [type |-> "number", num |-> n, str |-> <<>>]
Str(x) == [type |-> "string", num |-> 0, str |-> x]

\* strings carried in claims are sequences: of characters where the letter
\* case matters (roles), of one piece otherwise (emails)
RoleAdmin == <<"a", "d", "m", "i", "n">>
RoleUser == <<"u", "s", "e", "r">>

\* simple case folding of one character (the letters used by the model)
Fold(ch) ==
    CASE ch = "A" -> "a" [] ch = "D" -> "d" [] ch = "M" -> "m"
      [] ch = "I" -> "i" [] ch = "N" -> "n" [] ch = "U" -> "u"
      [] ch = "S" -> "s" [] ch = "E" -> "e" [] ch = "R" -> "r"
      [] OTHER -> ch

\* (mutant) the comparison is case-sensitive
EqualExact(x, y) == x = y

\* strings.EqualFold
EqualFold(x, y) ==
    /\ Len(x) = Len(y)
    /\ \A i \in 1..Len(x) : Fold(x[i]) = Fold(y[i])

(***************************************************************************)
(* Environment and configuration (config/config.go)                        *)
(***************************************************************************)
CfgAccessDefault == "01964c7b_9461_735b_82af_c02f626b7066"
CfgRefreshDefault == "01964c7b_9461_735b_82af_c02f626b7066SASS"
SvcAccessDefault == "your-secret-key"
SvcRefreshDefault == "your-refresh-secret-key"

\* os.Getenv gives "" for a variable that is not set
NoEnv == [JWT_SECRET |-> "", JWT_REFRESH_SECRET |-> "", DB_PORT |-> ""]

Envs ==
    [JWT_SECRET : {"", "k1"}, JWT_REFRESH_SECRET : {"", "k1"},
     DB_PORT : {"", "abc"}]

\* config.getEnv
getEnv(key, defaultValue) == IF env[key] = "" THEN defaultValue ELSE env[key]

\* utils.GetEnv
GetEnv(key, defaultValue) == IF env[key] = "" THEN defaultValue ELSE env[key]

\* strconv.Atoi succeeds on decimal digits only
AtoiOK(x) == x \in {"5432"}

LoadConfig ==
    [err |-> ~AtoiOK(getEnv("DB_PORT", "5432")),
     JWTSecret |-> getEnv("JWT_SECRET", CfgAccessDefault),
     JWTRefreshSecret |-> getEnv("JWT_REFRESH_SECRET", CfgRefreshDefault)]

(***************************************************************************)
(* Users (models/user.go, seeder)                                          *)
(***************************************************************************)
MaxUsers == 2
UserIds == 1..MaxUsers
SessionIds == {"s1", "s2"}

NoUser == [present |-> FALSE, username |-> <<>>, email |-> <<>>, role |-> RoleUser]

SeedUsers ==
    [u \in UserIds |->
        CASE u = 1 -> [present |-> TRUE, username |-> <<"admin_test">>,
                       email |-> <<"admin@soa.com">>, role |-> RoleAdmin]
          [] u = 2 -> [present |-> TRUE, username |-> <<"user_test">>,
                       email |-> <<"user@soa.com">>, role |-> RoleUser]
          [] OTHER -> NoUser]

\* gorm First on the primary key: soft-deleted and unknown rows are not found
GetByID(id) ==
    IF id \in DOMAIN users /\ users[id].present
    THEN [err |-> None, id |-> id, user |-> users[id]]
    ELSE [err |-> "ErrRecordNotFound", id |-> 0, user |-> NoUser]

GetByEmail(email) ==
    IF \E u \in DOMAIN users : users[u].present /\ users[u].email = email
    THEN LET u == CHOOSE u \in DOMAIN users : users[u].present /\ users[u].email = email
         IN [err |-> None, id |-> u, user |-> users[u]]
    ELSE [err |-> "ErrRecordNotFound", id |-> 0, user |-> NoUser]

(***************************************************************************)
(* Tokens (AuthService, golang-jwt)                                        *)
(***************************************************************************)
AccessTTL == 1
RefreshTTL == 7

GarbageToken ==
    [alg |-> "garbage", key |-> None, user_id |-> Absent, email |-> Absent,
     role |-> Absent, exp |-> Absent]

generateAccessToken(id, user, t) ==
    [alg |-> "HS256", key |-> GetEnv("JWT_SECRET", SvcAccessDefault),
     user_id |-> Num(id), email |-> Str(user.email), role |-> Str(user.role),
     exp |-> Num(t + AccessTTL)]

\* (mutant) the refresh token carries the email and the role as well
generateRefreshTokenFull(id, user, t) ==
    [alg |-> "HS256", key |-> GetEnv("JWT_REFRESH_SECRET", SvcRefreshDefault),
     user_id |-> Num(id), email |-> Str(user.email), role |-> Str(user.role),
     exp |-> Num(t + RefreshTTL)]

generateRefreshToken(id, user, t) ==
    [alg |-> "HS256", key |-> GetEnv("JWT_REFRESH_SECRET", SvcRefreshDefault),
     user_id |-> Num(id), email |-> Absent, role |-> Absent,
     exp |-> Num(t + RefreshTTL)]

IsHMAC(alg) == alg \in {"HS256", "HS384", "HS512"}

\* (mutant) the parser rejects a token one tick before its expiry
jwtParseEarlyExpiry(tok, secret, t) ==
    /\ IsHMAC(tok.alg)
    /\ tok.key = secret
    /\ tok.exp.type # "absent" => (tok.exp.type = "number" /\ t + 1 < tok.exp.num)

\* (mutant) the parser does not validate the exp claim
jwtParseNoExpiry(tok, secret, t) ==
    /\ IsHMAC(tok.alg)
    /\ tok.key = secret

\* jwt.Parse with a key function that insists on HMAC and returns `secret`:
\* the signature is verified, then exp (when present) must lie after t
jwtParse(tok, secret, t) ==
    /\ IsHMAC(tok.alg)
    /\ tok.key = secret
    /\ tok.exp.type # "absent" => (tok.exp.type = "number" /\ t < tok.exp.num)

ValidateToken(tok, t) == jwtParse(tok, GetEnv("JWT_SECRET", SvcAccessDefault), t)

ValidateRefreshToken(tok, t) ==
    jwtParse(tok, GetEnv("JWT_REFRESH_SECRET", SvcRefreshDefault), t)

\* tokens a client can present: the ones it was issued, and forgeries
Issued == UNION {{sessions[x][i] : i \in DOMAIN sessions[x]} : x \in SessionIds}

Forgeries(tok) ==
    {[tok EXCEPT !.key = "attacker-key"],
     [tok EXCEPT !.key = "attacker-key", !.exp = Num(MaxDay + 1)],
     [tok EXCEPT !.alg = "none"],
     [tok EXCEPT !.role = Str(<<"A", "D", "M", "I", "N">>)]}

\* tokens signed with the key of `tok` whose claims are missing or ill-typed
\* (a JSON string where the number is expected, a number for the role)
OddClaims(tok) ==
    {[tok EXCEPT !.user_id = Str(<<"1">>)],
     [tok EXCEPT !.email = Absent],
     [tok EXCEPT !.role = Num(1)]}

PresentableTokens ==
    {GarbageToken} \cup Issued
        \cup UNION {Forgeries(tok) \cup OddClaims(tok) : tok \in Issued}

\* the Authorization header, split at spaces: none, a lone scheme, another
\* scheme, a lower-case scheme, a third part, and Bearer with one token
Headers ==
    {<<"">>, <<"Bearer">>, <<"Basic", GarbageToken>>}
        \cup {<<"bearer", tok>> : tok \in Issued}
        \cup {<<"Bearer", tok, GarbageToken>> : tok \in Issued}
        \cup {<<"Bearer", tok>> : tok \in PresentableTokens}

(***************************************************************************)
(* gin.Context of one request and the handler chain it runs through        *)
(***************************************************************************)
AbortIndex == 63

ThrottleChain == <<"RateLimitMiddleware", "Handler">>

NoKeys == [userID |-> Absent, email |-> Absent, role |-> Absent]

NoRequest ==
    [route |-> None, ip |-> None, allowed |-> <<>>, keys |-> NoKeys]

IdleContext ==
    [state |-> "idle", route |-> None, chain |-> <<>>, index |-> 1, ip |-> None,
     status |-> 0, error |-> None, failed |-> None, ran |-> <<>>,
     header |-> <<>>, vt |-> 0, keys |-> NoKeys, allowed |-> <<>>,
     db |-> None]

\* a request enters the engine: the handlers of its route, nothing run yet
NewContext(chain, req) ==
    [IdleContext EXCEPT !.state = "running", !.route = req.route,
                        !.chain = chain, !.ip = req.ip,
                        !.allowed = req.allowed, !.keys = req.keys]

\* c.Next(): the engine goes on with the following handler of the chain
Next_(ctx) ==
    LET i == ctx.index + 1
    IN [ctx EXCEPT !.index = i,
                   !.ran = Append(ctx.ran, ctx.chain[ctx.index]),
                   !.state = IF i > Len(ctx.chain) THEN "done" ELSE "running"]

\* (mutant) the error response is written but c.Abort() is not called
RespondWithoutAbort(ctx, status, msg) ==
    LET i == ctx.index + 1
    IN [ctx EXCEPT !.index = i,
                   !.ran = Append(ctx.ran, ctx.chain[ctx.index]),
                   !.status = status,
                   !.error = msg,
                   !.failed = ctx.chain[ctx.index],
                   !.state = IF i > Len(ctx.chain) THEN "done" ELSE "running"]

\* c.JSON(status, {error: msg}); c.Abort(); return: no pending handler is called
AbortWith(ctx, status, msg) ==
    [ctx EXCEPT !.index = AbortIndex,
                !.ran = Append(ctx.ran, ctx.chain[ctx.index]),
                !.status = status,
                !.error = msg,
                !.failed = ctx.chain[ctx.index],
                !.state = "done"]

\* a route handler writing its response and returning
Respond(ctx, status) ==
    LET i == ctx.index + 1
    IN [ctx EXCEPT !.index = i,
                   !.ran = Append(ctx.ran, ctx.chain[ctx.index]),
                   !.status = status,
                   !.state = IF i > Len(ctx.chain) THEN "done" ELSE "running"]

AtStage(ctx, name) ==
    /\ ctx.state = "running"
    /\ ctx.index <= Len(ctx.chain)
    /\ ctx.chain[ctx.index] = name

(***************************************************************************)
(* RateLimitMiddleware (logger.go:130-163)                                 *)
(***************************************************************************)
\* (mutant) every client is counted under one shared key
ClientIPShared(ip) == "ipA"

ClientIP(ip) == ip

\* (mutant) the window is taken to have passed one tick early
WindowPassedInclusive(t, lastResetTime) == t - lastResetTime >= window

WindowPassed(t, lastResetTime) == t - lastResetTime > window

\* (mutant) the limit is compared with > instead of >=
LimitReachedStrict(count) == count > limit

LimitReached(count) == count >= limit

\* (mutant) an elapsed window moves the window start but keeps the count
AfterResetKeepCount(reqs, last, ip, t) ==
    IF ip \in DOMAIN last
    THEN IF WindowPassed(t, last[ip])
         THEN [requests |-> reqs, lastReset |-> MapSet(last, ip, t), reset |-> TRUE]
         ELSE [requests |-> reqs, lastReset |-> last, reset |-> FALSE]
    ELSE [requests |-> reqs, lastReset |-> MapSet(last, ip, t), reset |-> FALSE]

\* (mutant) an elapsed window deletes the entry of the key
AfterResetEvict(reqs, last, ip, t) ==
    IF ip \in DOMAIN last
    THEN IF WindowPassed(t, last[ip])
         THEN [requests |-> [x \in (DOMAIN reqs) \ {ip} |-> reqs[x]],
               lastReset |-> [x \in (DOMAIN last) \ {ip} |-> last[x]],
               reset |-> TRUE]
         ELSE [requests |-> reqs, lastReset |-> last, reset |-> FALSE]
    ELSE [requests |-> reqs, lastReset |-> MapSet(last, ip, t), reset |-> FALSE]

\* lines 139-147: the maps after the reset-or-create block
AfterReset(reqs, last, ip, t) ==
    IF ip \in DOMAIN last
    THEN IF WindowPassed(t, last[ip])
         THEN [requests |-> MapSet(reqs, ip, 0), lastReset |-> MapSet(last, ip, t),
               reset |-> TRUE]
         ELSE [requests |-> reqs, lastReset |-> last, reset |-> FALSE]
    ELSE [requests |-> reqs, lastReset |-> MapSet(last, ip, t), reset |-> FALSE]

\* the whole handler, run without interruption
RateLimitApply(reqs, last, ip, t) ==
    LET a == AfterReset(reqs, last, ClientIP(ip), t)
        count == MapGet(a.requests, ClientIP(ip))
    IN IF LimitReached(count)
       THEN [requests |-> a.requests, lastReset |-> a.lastReset,
             reset |-> a.reset, admitted |-> FALSE]
       ELSE [requests |-> MapSet(a.requests, ClientIP(ip), count + 1),
             lastReset |-> a.lastReset,
             reset |-> a.reset, admitted |-> TRUE]

LogEntry(t, admitted, count) ==
    [t |-> t, admitted |-> admitted, count |-> count,
     status |-> IF admitted THEN 200 ELSE 429]

\* ---- sequential engine: one request in flight, one action per handler ----

Tick ==
    /\ engine = "throttle"
    /\ ~crashed
    /\ now < MaxTime
    /\ now' = now + 1
    /\ UNCHANGED <<throttleVars, workerVars, c>>
    /\ UNCHANGED <<authVars, svcVars>>

ThrottleArrive ==
    /\ engine = "throttle"
    /\ c.state # "running"
    /\ \E ip \in IPs :
          /\ Len(log[ip]) < MaxLog
          /\ c' = NewContext(ThrottleChain, [NoRequest EXCEPT !.route = "throttle", !.ip = ip])
    /\ UNCHANGED <<now, throttleVars, workerVars>>
    /\ UNCHANGED <<authVars, svcVars>>

RateLimitMiddleware ==
    /\ AtStage(c, "RateLimitMiddleware")
    /\ LET r == RateLimitApply(requests, lastReset, c.ip, now)
           k == ClientIP(c.ip)
       IN /\ requests' = r.requests
          /\ lastReset' = r.lastReset
          /\ sinceReset' =
                [sinceReset EXCEPT ![k] = (IF r.reset THEN 0 ELSE @)
                                           + (IF r.admitted THEN 1 ELSE 0)]
          /\ log' = [log EXCEPT ![c.ip] =
                        Append(@, LogEntry(now, r.admitted, MapGet(r.requests, k)))]
          /\ c' = IF r.admitted THEN Next_(c) ELSE AbortWith(c, 429, "Rate limit exceeded")
    /\ UNCHANGED <<now, limit, window, crashed, workerVars>>
    /\ UNCHANGED <<authVars, svcVars>>

Handler ==
    /\ AtStage(c, "Handler")
    /\ c' = Respond(c, 200)
    /\ UNCHANGED <<now, throttleVars, workerVars>>
    /\ UNCHANGED <<authVars, svcVars>>

\* the workers of the concurrent engines (gin serves each request on its own
\* goroutine, with its own gin.Context)
Procs == {"p1", "p2"}

\* the record of a worker: `pc` is its place in the request it serves ("idle"
\* when it serves none), `token` the bearer token presented, `keys` the keys
\* of its own context, `userID` what the handler read with
\* c.GetUint("userID"), `param` the path parameter the handler is parsing
\* and `id` its value, `row` the user struct that AuthService.UpdatePassword
\* holds between its read and its Save, `db` how the store answered the
\* handler's lookup of the acting user ("down" also once any statement of
\* the request came back with an error of the store), the rest the request
\* body (`password`: what the body of PUT /auth/password is, `form`: whether
\* the body binds and, of a registration, what its other fields are); of a
\* request that was answered the route, the place it ended at (`stage`),
\* `param`, `db` and the status stay readable
NewRequest ==
    [pc |-> "idle", route |-> None, token |-> GarbageToken, keys |-> NoKeys,
     userID |-> 0, param |-> None, id |-> 0, role |-> <<>>, username |-> <<>>,
     email |-> <<>>, form |-> None, product |-> 0, password |-> None,
     row |-> NoUser, db |-> None, stage |-> None, status |-> 0]

\* database.Connect has not been called: `i` is the loop counter, `err` the
\* function's own err variable, `attempts` what each attempt met so far
NotConnected ==
    [pc |-> "idle", i |-> 0, err |-> None, attempts |-> <<>>,
     migrated |-> FALSE, result |-> None]

ServicesIdle ==
    /\ procs = [p \in Procs |-> NewRequest]
    /\ wishlists = <<>>
    /\ reviews = <<>>
    /\ conn = NotConnected

\* no request yet, empty throttle maps, the seeded users, nobody logged in
Started ==
    /\ ServicesIdle
    /\ now = 0
    /\ requests = EmptyMap
    /\ lastReset = EmptyMap
    /\ crashed = FALSE
    /\ log = [ip \in IPs |-> <<>>]
    /\ sinceReset = [ip \in IPs |-> 0]
    /\ tpc = [r \in ReqIds |-> "idle"]
    /\ tip = [r \in ReqIds |-> None]
    /\ tnow = [r \in ReqIds |-> 0]
    /\ tcnt = [r \in ReqIds |-> 0]
    /\ c = IdleContext
    /\ users = SeedUsers
    /\ sessions = [x \in SessionIds |-> <<>>]

InitThrottle ==
    /\ Started
    /\ engine = "throttle"
    /\ limit \in Limits
    /\ window \in Windows
    /\ env = NoEnv

NextThrottleSeq ==
    \/ Tick
    \/ ThrottleArrive
    \/ RateLimitMiddleware
    \/ Handler

SpecThrottleSeq == InitThrottle /\ [][NextThrottleSeq]_vars

\* ---- concurrent requests: one step per access to the shared maps ----

InFlight(ip) == {r \in ReqIds : tpc[r] # "idle" /\ tip[r] = ip}

TBegin(r) ==
    /\ ~crashed
    /\ tpc[r] = "idle"
    /\ \E ip \in IPs :
          /\ Len(log[ip]) + Cardinality(InFlight(ip)) < MaxConcLog
          /\ tip' = [tip EXCEPT ![r] = ClientIP(ip)]
    /\ tnow' = [tnow EXCEPT ![r] = now]
    /\ tpc' = [tpc EXCEPT ![r] = "lookup"]
    /\ UNCHANGED <<now, throttleVars, tcnt, c>>
    /\ UNCHANGED <<authVars, svcVars>>

TLookup(r) ==
    /\ ~crashed
    /\ tpc[r] = "lookup"
    /\ tpc' = [tpc EXCEPT ![r] =
                  IF tip[r] \in DOMAIN lastReset
                  THEN IF WindowPassed(tnow[r], lastReset[tip[r]])
                       THEN "resetCount" ELSE "check"
                  ELSE "create"]
    /\ UNCHANGED <<now, throttleVars, tip, tnow, tcnt, c>>
    /\ UNCHANGED <<authVars, svcVars>>

TResetCount(r) ==
    /\ ~crashed
    /\ tpc[r] = "resetCount"
    /\ requests' = MapSet(requests, tip[r], 0)
    /\ sinceReset' = [sinceReset EXCEPT ![tip[r]] = 0]
    /\ tpc' = [tpc EXCEPT ![r] = "resetTime"]
    /\ UNCHANGED <<now, limit, window, lastReset, crashed, log, tip, tnow, tcnt, c>>
    /\ UNCHANGED <<authVars, svcVars>>

TResetTime(r) ==
    /\ ~crashed
    /\ tpc[r] = "resetTime"
    /\ lastReset' = MapSet(lastReset, tip[r], tnow[r])
    /\ tpc' = [tpc EXCEPT ![r] = "check"]
    /\ UNCHANGED <<now, limit, window, requests, crashed, log, sinceReset,
                   tip, tnow, tcnt, c>>
    /\ UNCHANGED <<authVars, svcVars>>

TCreate(r) ==
    /\ ~crashed
    /\ tpc[r] = "create"
    /\ lastReset' = MapSet(lastReset, tip[r], tnow[r])
    /\ tpc' = [tpc EXCEPT ![r] = "check"]
    /\ UNCHANGED <<now, limit, window, requests, crashed, log, sinceReset,
                   tip, tnow, tcnt, c>>
    /\ UNCHANGED <<authVars, svcVars>>

TCheck(r) ==
    /\ ~crashed
    /\ tpc[r] = "check"
    /\ IF LimitReached(MapGet(requests, tip[r]))
       THEN /\ log' = [log EXCEPT ![tip[r]] =
                          Append(@, LogEntry(tnow[r], FALSE, MapGet(requests, tip[r])))]
            /\ tpc' = [tpc EXCEPT ![r] = "idle"]
            /\ tip' = [tip EXCEPT ![r] = None]
            /\ tnow' = [tnow EXCEPT ![r] = 0]
       ELSE /\ tpc' = [tpc EXCEPT ![r] = "incrRead"]
            /\ UNCHANGED <<log, tip, tnow>>
    /\ UNCHANGED <<now, limit, window, requests, lastReset, crashed, sinceReset,
                   tcnt, c>>
    /\ UNCHANGED <<authVars, svcVars>>

TIncrRead(r) ==
    /\ ~crashed
    /\ tpc[r] = "incrRead"
    /\ tcnt' = [tcnt EXCEPT ![r] = MapGet(requests, tip[r])]
    /\ tpc' = [tpc EXCEPT ![r] = "incrWrite"]
    /\ UNCHANGED <<now, throttleVars, tip, tnow, c>>
    /\ UNCHANGED <<authVars, svcVars>>

TIncrWrite(r) ==
    /\ ~crashed
    /\ tpc[r] = "incrWrite"
    /\ requests' = MapSet(requests, tip[r], tcnt[r] + 1)
    /\ sinceReset' = [sinceReset EXCEPT ![tip[r]] = @ + 1]
    /\ log' = [log EXCEPT ![tip[r]] =
                  Append(@, LogEntry(tnow[r], TRUE, tcnt[r] + 1))]
    /\ tpc' = [tpc EXCEPT ![r] = "idle"]
    /\ tip' = [tip EXCEPT ![r] = None]
    /\ tnow' = [tnow EXCEPT ![r] = 0]
    /\ tcnt' = [tcnt EXCEPT ![r] = 0]
    /\ UNCHANGED <<now, limit, window, lastReset, crashed, c>>
    /\ UNCHANGED <<authVars, svcVars>>

MapReaders == {"lookup", "check", "incrRead"}
MapWriters == {"resetCount", "resetTime", "create", "incrWrite"}

\* unsynchronised access to a Go map while another goroutine writes it:
\* the runtime may stop the process ("concurrent map writes")
MapFault ==
    /\ ~crashed
    /\ \E r1, r2 \in ReqIds :
          /\ r1 # r2
          /\ tpc[r1] \in MapWriters
          /\ tpc[r2] \in MapWriters \cup MapReaders
    /\ crashed' = TRUE
    /\ UNCHANGED <<now, limit, window, requests, lastReset, log, sinceReset,
                   workerVars, c>>
    /\ UNCHANGED <<authVars, svcVars>>

NextThrottle ==
    \/ Tick
    \/ MapFault
    \/ \E r \in ReqIds :
          \/ TBegin(r)
          \/ TLookup(r)
          \/ TResetCount(r)
          \/ TResetTime(r)
          \/ TCreate(r)
          \/ TCheck(r)
          \/ TIncrRead(r)
          \/ TIncrWrite(r)

SpecThrottle == InitThrottle /\ [][NextThrottle]_vars

(***************************************************************************)
(* The router of main: global middlewares, then the handlers of the route  *)
(***************************************************************************)
GlobalChain ==
    <<"Logger", "Recovery", "Recovery", "AutoLogger", "ErrorHandlerMiddleware">>

Routes == {"login", "me"}

RouteChain(route) ==
    GlobalChain \o
        CASE route = "login" -> <<"Login">>
          [] route = "me" -> <<"AuthMiddleware", "GetCurrentUser">>

\* a day passes (tokens carry expiry times in days); while requests are
\* served concurrently the clock runs for MaxWait days
NextDay ==
    /\ engine \in {"router", "verify", "admin"}
    /\ now < (IF engine = "admin" THEN MaxWait ELSE MaxDay)
    /\ now' = now + 1
    /\ UNCHANGED <<throttleVars, workerVars, c, authVars, svcVars>>

Arrive ==
    /\ engine = "router"
    /\ ~LoadConfig.err
    /\ c.state # "running"
    /\ \E route \in Routes :
          c' = NewContext(RouteChain(route),
                          [NoRequest EXCEPT !.route = route, !.ip = "ipA"])
    /\ UNCHANGED <<now, throttleVars, workerVars, authVars, svcVars>>

\* Logger, Recovery, AutoLogger, ErrorHandlerMiddleware: call c.Next() and
\* only log afterwards (no handler records a gin error)
PassThrough ==
    /\ \E i \in DOMAIN GlobalChain : AtStage(c, GlobalChain[i])
    /\ c' = Next_(c)
    /\ UNCHANGED <<now, throttleVars, workerVars, authVars, svcVars>>

\* (mutant) any two-part header is taken as a bearer token
HeaderOKAnyScheme(parts) == Len(parts) = 2

\* len(parts) != 2 || parts[0] != "Bearer" is the failure
HeaderOK(parts) == Len(parts) = 2 /\ parts[1] = "Bearer"

\* (mutant) the role claim is not type-checked
ClaimsOKNoRole(tok) ==
    /\ tok.user_id.type = "number"
    /\ tok.email.type = "string"

ClaimsOK(tok) ==
    /\ tok.user_id.type = "number"
    /\ tok.email.type = "string"
    /\ tok.role.type = "string"

AuthMiddleware ==
    /\ AtStage(c, "AuthMiddleware")
    /\ \E parts \in Headers :
          LET cfg == LoadConfig
              c1 == [c EXCEPT !.header = parts, !.vt = now]
          IN c' =
                IF parts = <<"">>
                THEN AbortWith(c1, 401, "authorization header is required")
                ELSE IF ~HeaderOK(parts)
                THEN AbortWith(c1, 401, "invalid authorization header format")
                ELSE IF cfg.err
                THEN AbortWith(c1, 500, "failed to load configuration")
                ELSE IF ~jwtParse(parts[2], cfg.JWTSecret, now)
                THEN AbortWith(c1, 401, "invalid or expired token")
                ELSE IF ~ClaimsOK(parts[2])
                THEN AbortWith(c1, 401, "missing or invalid claim fields")
                ELSE Next_([c1 EXCEPT !.keys =
                               [userID |-> Num(parts[2].user_id.num),
                                email |-> parts[2].email,
                                role |-> parts[2].role]])
    /\ UNCHANGED <<now, throttleVars, workerVars, authVars, svcVars>>

RequireRole ==
    /\ AtStage(c, "RequireRole")
    /\ LET roleValue == c.keys.role
       IN c' =
             IF roleValue.type = "absent"
             THEN AbortWith(c, 403, "Access denied: missing role")
             ELSE IF roleValue.type # "string"
             THEN AbortWith(c, 403, "Access denied: invalid role format")
             ELSE IF \E i \in DOMAIN c.allowed : EqualFold(roleValue.str, c.allowed[i])
             THEN Next_(c)
             ELSE AbortWith(c, 403, "Access denied: insufficient permissions")
    /\ UNCHANGED <<now, throttleVars, workerVars, authVars, svcVars>>

\* c.GetUint("userID"): 0 when the key is missing or not a uint
GetUint(ctx) == IF ctx.keys.userID.type = "number" THEN ctx.keys.userID.num ELSE 0

LoginEmails == {<<"admin@soa.com">>, <<"user@soa.com">>, <<"nobody@soa.com">>}

Login ==
    /\ AtStage(c, "Login")
    /\ \E bindOK \in BOOLEAN, email \in LoginEmails, passwordOK \in BOOLEAN,
          x \in SessionIds :
          LET found == GetByEmail(email)
          IN IF ~bindOK
             THEN /\ c' = Respond(c, 400)
                  /\ UNCHANGED sessions
             ELSE IF found.err # None \/ ~passwordOK
             THEN /\ c' = Respond(c, 401)
                  /\ UNCHANGED sessions
             ELSE /\ sessions' = [sessions EXCEPT ![x] =
                        <<generateAccessToken(found.id, found.user, now),
                          generateRefreshToken(found.id, found.user, now)>>]
                  /\ c' = Respond(c, 200)
    /\ UNCHANGED <<now, throttleVars, workerVars, engine, env, users, svcVars>>

GetCurrentUser ==
    /\ AtStage(c, "GetCurrentUser")
    /\ \E db \in {"ok", "down"} :
          c' = IF db = "down" \/ GetByID(GetUint(c)).err # None
               THEN Respond([c EXCEPT !.db = db], 500)
               ELSE Respond([c EXCEPT !.db = db], 200)
    /\ UNCHANGED <<now, throttleVars, workerVars, authVars, svcVars>>

\* main mounts no throttle: its two arguments are left at fixed values
InitRouter ==
    /\ Started
    /\ engine = "router"
    /\ limit = 0
    /\ window = 1
    /\ env \in Envs

NextRouter ==
    \/ NextDay
    \/ Arrive
    \/ PassThrough
    \/ AuthMiddleware
    \/ Login
    \/ GetCurrentUser

Spec == InitRouter /\ [][NextRouter]_vars

(***************************************************************************)
(* RequireRole on a bare engine: any value may sit under the key "role"    *)
(***************************************************************************)
RoleChain == <<"RequireRole", "Handler">>

RoleValues ==
    {Absent, Num(7), Str(<<>>), Str(RoleAdmin), Str(RoleUser),
     Str(<<"A", "d", "m", "i", "n">>), Str(<<"A", "D", "M", "I", "N">>),
     Str(<<"U", "S", "E", "R">>), Str(<<"a", "d", "m">>)}

AllowedLists ==
    {<<>>, <<RoleAdmin>>, <<RoleUser>>, <<RoleAdmin, RoleUser>>,
     <<<<"A", "d", "m", "i", "n">>>>, <<RoleUser, <<"A", "D", "M", "I", "N">>>>}

RoleArrive ==
    /\ engine = "role"
    /\ c.state # "running"
    /\ \E roleValue \in RoleValues, allowedRoles \in AllowedLists :
          c' = NewContext(RoleChain,
                          [NoRequest EXCEPT !.route = "role", !.ip = "ipA",
                                            !.allowed = allowedRoles,
                                            !.keys = [NoKeys EXCEPT !.role = roleValue]])
    /\ UNCHANGED <<now, throttleVars, workerVars, authVars, svcVars>>

InitRole ==
    /\ Started
    /\ engine = "role"
    /\ limit = 0
    /\ window = 1
    /\ env = NoEnv

NextRole ==
    \/ RoleArrive
    \/ RequireRole
    \/ Handler

SpecRequireRole == InitRole /\ [][NextRole]_vars

(***************************************************************************)
(* AuthMiddleware on a bare engine, for a client that logged in as the     *)
(* seeded admin at time 0 and presents the same header again and again     *)
(***************************************************************************)
VerifyChain == <<"AuthMiddleware", "Handler">>

VerifyArrive ==
    /\ engine = "verify"
    /\ c.state # "running"
    /\ \E ip \in IPs :
          c' = NewContext(VerifyChain,
                          [NoRequest EXCEPT !.route = "verify", !.ip = ip])
    /\ UNCHANGED <<now, throttleVars, workerVars, engine, env, users, sessions, svcVars>>

InitVerify ==
    /\ now = 0
    /\ requests = EmptyMap
    /\ lastReset = EmptyMap
    /\ crashed = FALSE
    /\ log = [ip \in IPs |-> <<>>]
    /\ sinceReset = [ip \in IPs |-> 0]
    /\ tpc = [r \in ReqIds |-> "idle"]
    /\ tip = [r \in ReqIds |-> None]
    /\ tnow = [r \in ReqIds |-> 0]
    /\ tcnt = [r \in ReqIds |-> 0]
    /\ c = IdleContext
    /\ users = SeedUsers
    /\ ServicesIdle
    /\ engine = "verify"
    /\ limit = 0
    /\ window = 1
    /\ env \in Envs
    /\ sessions =
          [x \in SessionIds |->
              IF x = "s1"
              THEN <<generateAccessToken(1, SeedUsers[1], 0),
                     generateRefreshToken(1, SeedUsers[1], 0)>>
              ELSE <<>>]

NextVerify ==
    \/ NextDay
    \/ VerifyArrive
    \/ AuthMiddleware
    \/ Handler

SpecVerify == InitVerify /\ [][NextVerify]_vars

\* every engine that follows one request through its chain
InitEngine == InitThrottle \/ InitRouter \/ InitRole \/ InitVerify

NextEngine == NextThrottleSeq \/ NextRouter \/ NextRole \/ NextVerify

SpecEngine == InitEngine /\ [][NextEngine]_vars

(***************************************************************************)
(* Properties of the request throttle                                      *)
(***************************************************************************)
Admitted(lg) == {i \in DOMAIN lg : lg[i].admitted}

\* every request logged for the key read the clock within one window of the
\* earliest one
WithinOneWindow(lg) ==
    \A i, j \in DOMAIN lg : lg[i].t - lg[j].t <= window

\* C1: with limit > 0, of concurrent requests of one client that all arrive
\* within one window at most `limit` are admitted, the others get 429.
C1_AtMostLimitAdmitted ==
    \A ip \in IPs :
        (limit > 0 /\ WithinOneWindow(log[ip]))
            => /\ Cardinality(Admitted(log[ip])) <= limit
               /\ \A i \in DOMAIN log[ip] :
                     ~log[ip][i].admitted => log[ip][i].status = 429

\* the requests of a key that fall inside the window opened by its first one
InWindow(lg) == {i \in DOMAIN lg : lg[i].t - lg[1].t <= window}

\* the first request of a key that arrives after that window has elapsed
FirstAfter(lg) ==
    {j \in DOMAIN lg : j \notin InWindow(lg) /\ \A i \in 1..(j-1) : i \in InWindow(lg)}

BoundaryHolds(lg) ==
    /\ \A i \in InWindow(lg) :
          /\ lg[i].admitted <=> i <= limit
          /\ ~lg[i].admitted => lg[i].status = 429
    /\ \A j \in FirstAfter(lg) : lg[j].admitted /\ lg[j].count = 1

\* C2 (as stated): sequential requests of one client: the first `limit`
\* requests inside a window are admitted, the further ones get 429, and the
\* first request after the window has elapsed is admitted and leaves the
\* counter at 1.
C2_ThrottleBoundaryAnyLimit ==
    \A ip \in IPs : log[ip] # <<>> => BoundaryHolds(log[ip])

\* C2 (amended): the same, for a limit of at least 1.
C2_ThrottleBoundary ==
    \A ip \in IPs : (limit >= 1 /\ log[ip] # <<>>) => BoundaryHolds(log[ip])

C2_Witness ==
    \E ip \in IPs :
        /\ limit >= 1
        /\ c.state = "done"
        /\ \E i \in InWindow(log[ip]) : i > limit /\ log[ip][i].status = 429
        /\ \E j \in FirstAfter(log[ip]) : log[ip][j].count = 1

\* the fixed-window state machine fed with the arrival times of one key only
RECURSIVE OwnEntry(_, _)
OwnEntry(lg, n) ==
    IF n = 0 THEN [has |-> FALSE, count |-> 0, start |-> 0]
    ELSE LET prev == OwnEntry(lg, n - 1)
             t == lg[n].t
             opened == IF ~prev.has \/ t - prev.start > window
                       THEN [has |-> TRUE, count |-> 0, start |-> t]
                       ELSE prev
         IN IF opened.count >= limit
            THEN opened
            ELSE [opened EXCEPT !.count = @ + 1]

OwnAdmitted(lg, n) ==
    LET prev == OwnEntry(lg, n - 1)
        fresh == ~prev.has \/ lg[n].t - prev.start > window
    IN (IF fresh THEN 0 ELSE prev.count) < limit

\* the decisions taken for a key follow from that key's own requests
OwnHistoryDecides ==
    \A ip \in IPs :
        /\ \A n \in DOMAIN log[ip] : log[ip][n].admitted <=> OwnAdmitted(log[ip], n)
        /\ LET e == OwnEntry(log[ip], Len(log[ip]))
           IN /\ MapGet(requests, ip) = e.count
              /\ e.has <=> ip \in DOMAIN lastReset
              /\ e.has => lastReset[ip] = e.start

\* a request of key a leaves the entry of every other key as it was
OtherKeysUnchanged ==
    \A a \in IPs :
        (AtStage(c, "RateLimitMiddleware") /\ c.ip = a) =>
            \A b \in IPs \ {a} :
                /\ (b \in DOMAIN requests') <=> (b \in DOMAIN requests)
                /\ (b \in DOMAIN lastReset') <=> (b \in DOMAIN lastReset)
                /\ MapGet(requests', b) = MapGet(requests, b)
                /\ MapGet(lastReset', b) = MapGet(lastReset, b)

\* C8: a request of client key A never changes the count or window start
\* stored for another key B, and whether it is admitted depends only on
\* A's own entry, after any sequence of requests of any keys.
C8_ThrottleIsolation == []OwnHistoryDecides /\ [][OtherKeysUnchanged]_vars

C8_Witness ==
    /\ c.state = "done"
    /\ c.ip = "ipB"
    /\ MapGet(requests, "ipA") >= 1
    /\ MapGet(requests, "ipB") >= 1
    /\ MapGet(requests, "ipA") # MapGet(requests, "ipB")
    /\ MapGet(lastReset, "ipA") # MapGet(lastReset, "ipB")

\* C9: under every interleaving the read-modify-write of a key's entry is
\* atomic: the stored count equals the number of requests admitted since
\* the key's last reset.
C9_NoLostIncrement ==
    \A ip \in IPs : MapGet(requests, ip) = sinceReset[ip]

(***************************************************************************)
(* Properties of token verification and of the role checks                 *)
(***************************************************************************)
Last(q) == q[Len(q)]

Ran(ctx, name) == \E i \in DOMAIN ctx.ran : ctx.ran[i] = name

HandlerNames == {"Handler", "Login", "GetCurrentUser"}

HandlerRan(ctx) == \E i \in DOMAIN ctx.ran : ctx.ran[i] \in HandlerNames

\* the request carried a bearer token that AuthMiddleware has looked at
Presented(ctx) ==
    /\ Ran(ctx, "AuthMiddleware")
    /\ Len(ctx.header) = 2
    /\ ctx.header[1] = "Bearer"

Expired(tok, t) == tok.exp.type = "number" /\ tok.exp.num < t

\* C4: a token whose expiry lies before the current time fails verification
\* whether or not its signature is valid: AuthMiddleware answers 401 and the
\* handler does not run.
C4_ExpiredNeverAccepted ==
    /\ \A tok \in PresentableTokens :
          Expired(tok, now) =>
             /\ ~ValidateToken(tok, now)
             /\ ~jwtParse(tok, LoadConfig.JWTSecret, now)
    /\ (Presented(c) /\ Expired(c.header[2], c.vt)) =>
          /\ c.status = 401
          /\ c.state = "done"
          /\ Last(c.ran) = "AuthMiddleware"
          /\ ~HandlerRan(c)

C4_Witness ==
    /\ Presented(c)
    /\ Expired(c.header[2], c.vt)
    /\ c.header[2] \in Issued
    /\ c.header[2].key = LoadConfig.JWTSecret
    /\ c.status = 401

\* C5: an issued access token never passes ValidateRefreshToken and an
\* issued refresh token never passes ValidateToken or AuthMiddleware,
\* whatever the two signing secrets are.
C5_CrossKindRejected ==
    \A x \in SessionIds :
        sessions[x] # <<>> =>
           /\ ~ValidateRefreshToken(sessions[x][1], now)
           /\ ~ValidateToken(sessions[x][2], now)
           /\ (Presented(c) /\ c.header[2] = sessions[x][2]) => c.status = 401

FailureStatuses == {401, 403, 429, 500}

\* C6: once a stage of the pipeline fails (429, 401, 500, 403) no later
\* middleware and no route handler runs for the request, and the failing
\* stage is not run again.
FailureStops ==
    c.failed # None =>
       /\ c.state = "done"
       /\ c.status \in FailureStatuses
       /\ Last(c.ran) = c.failed
       /\ c.ran = SubSeq(c.chain, 1, Len(c.ran))
       /\ ~HandlerRan(c)

FailedStaysFailed == c.failed # None => (c' = c \/ c'.ran = <<>>)

C6_FailureIsTerminal == []FailureStops /\ [][FailedStaysFailed]_vars

C6_Witness ==
    /\ engine = "router"
    /\ c.failed = "AuthMiddleware"
    /\ c.status = 401
    /\ c.route = "me"
    /\ c.ran = GlobalChain \o <<"AuthMiddleware">>

Before(q, first, second) ==
    \A j \in DOMAIN q : q[j] = second => \E i \in 1..(j-1) : q[i] = first

\* C7: every request served by the router, login and register included,
\* passes the throttle before token verification; on role-gated routes the
\* order is throttle, AuthMiddleware, RequireRole, handler.
C7_ThrottleFirst ==
    c.route \in Routes =>
       /\ \A name \in HandlerNames \cup {"AuthMiddleware"} :
             Before(c.ran, "RateLimitMiddleware", name)
       /\ Before(c.ran, "AuthMiddleware", "RequireRole")
       /\ Before(c.ran, "RequireRole", "UpdateUserRole")
       /\ Before(c.ran, "RequireRole", "DeleteUser")

Upper(ch) ==
    CASE ch = "a" -> "A" [] ch = "d" -> "D" [] ch = "m" -> "M"
      [] ch = "i" -> "I" [] ch = "n" -> "N" [] ch = "u" -> "U"
      [] ch = "s" -> "S" [] ch = "e" -> "E" [] ch = "r" -> "R"
      [] OTHER -> ch

SameIgnoringCase(x, y) == [i \in DOMAIN x |-> Upper(x[i])] = [i \in DOMAIN y |-> Upper(y[i])]

RolePermitted(ctx) ==
    /\ ctx.keys.role.type = "string"
    /\ \E i \in DOMAIN ctx.allowed : SameIgnoringCase(ctx.keys.role.str, ctx.allowed[i])

\* C10: RequireRole lets the request proceed iff the context holds a string
\* role equal, ignoring letter case, to one of the allowed roles; otherwise
\* (absent, not a string, no match) it answers 403 and aborts.
C10_RequireRoleIff ==
    Ran(c, "RequireRole") =>
        IF RolePermitted(c)
        THEN c.failed = None /\ c.index = Len(c.ran) + 1
        ELSE /\ c.status = 403
             /\ c.failed = "RequireRole"
             /\ c.index = AbortIndex
             /\ c.state = "done"
             /\ ~HandlerRan(c)

C10_Witness ==
    /\ engine = "role"
    /\ c.state = "done"
    /\ c.keys.role = Str(<<"A", "D", "M", "I", "N">>)
    /\ c.allowed = <<RoleUser, RoleAdmin>> \/ c.allowed = <<RoleAdmin>>
    /\ Ran(c, "Handler")
    /\ c.status = 200

(***************************************************************************)
(* Properties of AuthMiddleware's checks                                   *)
(***************************************************************************)
WellTyped(tok) ==
    /\ tok.user_id.type = "number"
    /\ tok.email.type = "string"
    /\ tok.role.type = "string"

\* the request carried a bearer token that is signed with the configured
\* secret and had not expired when AuthMiddleware looked at it
SignedUnexpired(ctx) ==
    /\ Presented(ctx)
    /\ IsHMAC(ctx.header[2].alg)
    /\ ctx.header[2].key = LoadConfig.JWTSecret
    /\ ctx.header[2].exp.type = "number"
    /\ ctx.vt < ctx.header[2].exp.num

\* C11: a correctly signed, unexpired token is accepted by AuthMiddleware
\* only if user_id (number), email (string) and role (string) are all
\* present and well-typed; otherwise the request gets 401, no identity is
\* stored in the context and the handler does not run.
C11_ClaimsRequired ==
    SignedUnexpired(c) =>
        IF WellTyped(c.header[2])
        THEN /\ c.failed # "AuthMiddleware"
             /\ c.keys = [userID |-> Num(c.header[2].user_id.num),
                          email |-> c.header[2].email,
                          role |-> c.header[2].role]
        ELSE /\ c.status = 401
             /\ c.failed = "AuthMiddleware"
             /\ c.state = "done"
             /\ c.keys = NoKeys
             /\ ~HandlerRan(c)

C11_Witness ==
    /\ SignedUnexpired(c)
    /\ c.header[2].role = Num(1)
    /\ c.header[2].email.type = "string"
    /\ c.status = 401
    /\ c.keys = NoKeys

\* C12: every token verification failure in AuthMiddleware (signature or
\* algorithm, expiry, malformed or missing claims) gives the same response:
\* 401 with the message "invalid or expired token".
C12_GenericMessage ==
    (Presented(c) /\ c.failed = "AuthMiddleware") =>
        /\ c.status = 401
        /\ c.error = "invalid or expired token"

\* C13: on a route behind AuthMiddleware a request without Authorization
\* header, or whose header is not exactly the two parts `Bearer <token>`,
\* is answered 401 and stopped before the token is parsed and before any
\* handler runs.
C13_HeaderRequired ==
    (Ran(c, "AuthMiddleware") /\ (Len(c.header) # 2 \/ c.header[1] # "Bearer")) =>
        /\ c.status = 401
        /\ c.failed = "AuthMiddleware"
        /\ c.state = "done"
        /\ c.error = IF c.header = <<"">>
                     THEN "authorization header is required"
                     ELSE "invalid authorization header format"
        /\ c.keys = NoKeys
        /\ ~HandlerRan(c)

\* a lower-case scheme in front of a token that Bearer would have let in
C13_Witness ==
    /\ Ran(c, "AuthMiddleware")
    /\ Len(c.header) = 2
    /\ c.header[1] = "bearer"
    /\ jwtParse(c.header[2], LoadConfig.JWTSecret, c.vt)
    /\ WellTyped(c.header[2])
    /\ c.status = 401

\* the access tokens of the token pairs handed out by Login
IssuedAccess == {sessions[x][1] : x \in {y \in SessionIds : sessions[y] # <<>>}}

(***************************************************************************)
(* Properties of the throttle's window, count and entries                  *)
(***************************************************************************)
\* the step in which RateLimitMiddleware handles the request of key ip
ThrottleStep(ip) ==
    /\ AtStage(c, "RateLimitMiddleware")
    /\ c.ip = ip
    /\ Ran(c', "RateLimitMiddleware")

\* C16: for a key that has an entry the throttle sets count to 0 and
\* windowStart to now exactly when now - windowStart > window, before the
\* limit check (which then sees count 0); when now - windowStart <= window
\* windowStart is left as it was.
C16_ResetWhenWindowPassed ==
    [][\A ip \in IPs :
          (ThrottleStep(ip) /\ ip \in DOMAIN lastReset) =>
              IF now - lastReset[ip] > window
              THEN /\ lastReset'[ip] = now
                   /\ (c'.failed = None) <=> (0 < limit)
                   /\ MapGet(requests', ip) = IF 0 < limit THEN 1 ELSE 0
              ELSE /\ lastReset'[ip] = lastReset[ip]
                   /\ (c'.failed = None) <=> (MapGet(requests, ip) < limit)
                   /\ MapGet(requests', ip) =
                         MapGet(requests, ip)
                             + (IF MapGet(requests, ip) < limit THEN 1 ELSE 0)]_vars

\* a key whose count had reached 2 was reset and admitted again
C16_Witness ==
    \E ip \in IPs :
        /\ Len(log[ip]) >= 3
        /\ log[ip][2].count = 2
        /\ log[ip][3].count = 1
        /\ log[ip][3].admitted
        /\ lastReset[ip] = log[ip][3].t
        /\ lastReset[ip] > window

CountWithinLimit ==
    limit >= 0 => \A ip \in IPs : MapGet(requests, ip) <= limit

CountMoves ==
    \A ip \in IPs :
        ThrottleStep(ip) =>
            IF c'.status = 429
            THEN MapGet(requests', ip) = MapGet(requests, ip)
            ELSE \/ MapGet(requests', ip) = MapGet(requests, ip) + 1
                 \/ /\ ip \in DOMAIN lastReset
                    /\ now - lastReset[ip] > window
                    /\ MapGet(requests', ip) = 1

\* C17: a request rejected because count >= limit leaves the key's count
\* unchanged; only admitted requests increment it, each by exactly 1 (from 0
\* after a reset), so with limit >= 0 the count never exceeds limit.
C17_CountOnlyOnAdmit == []CountWithinLimit /\ [][CountMoves]_vars

C17_Witness ==
    /\ c.state = "done"
    /\ c.status = 429
    /\ limit >= 1
    /\ MapGet(requests, c.ip) = limit
    /\ Len(log[c.ip]) > limit

\* the requests of the log admitted in the interval of length `window` that
\* starts with request i
BurstFrom(lg, i) ==
    Cardinality({j \in DOMAIN lg :
                    /\ lg[j].admitted
                    /\ lg[j].t >= lg[i].t
                    /\ lg[j].t - lg[i].t <= window})

\* entry r of the log is the first request after a window boundary: it was
\* admitted with a count starting again at 1
OpensWindow(lg, r) == r > 1 /\ lg[r].admitted /\ lg[r].count = 1

\* C18 (as stated): 2 x limit is reached across a window boundary: when a
\* client sends limit requests just before a boundary and limit requests
\* just after it, all inside an interval of length at most the window, all
\* 2 x limit of them are admitted.
C18_BurstReachesTwiceLimit ==
    \A ip \in IPs : \A i, r \in DOMAIN log[ip] :
        (/\ limit >= 1
         /\ r - i = limit
         /\ r + limit - 1 <= Len(log[ip])
         /\ OpensWindow(log[ip], r)
         /\ log[ip][r + limit - 1].t - log[ip][i].t <= window) =>
            \A j \in i..(r + limit - 1) : log[ip][j].admitted

\* C18 (amended): the number of requests of one client admitted inside any
\* interval of length at most the window never exceeds 2 x limit - 1
\* (limit - 1 before the boundary, limit after it) when limit >= 1, and can
\* reach it; with limit <= 0 no request is admitted.
C18_BurstBelowTwiceLimit ==
    \A ip \in IPs : \A i \in DOMAIN log[ip] :
        BurstFrom(log[ip], i) <= (IF limit >= 1 THEN 2 * limit - 1 ELSE 0)

C18_Witness ==
    /\ limit = 2
    /\ c.state = "done"
    /\ \E ip \in IPs : \E i \in DOMAIN log[ip] : BurstFrom(log[ip], i) = 3

EntryIffRequested ==
    \A ip \in IPs : (log[ip] # <<>>) <=> (ip \in DOMAIN lastReset)

EntriesKept ==
    /\ DOMAIN lastReset \subseteq DOMAIN lastReset'
    /\ DOMAIN requests \subseteq DOMAIN requests'

\* C19: a throttle entry is created for a key on its first request and is
\* never removed: the set of keys with an entry only grows.
C19_EntriesOnlyGrow == []EntryIffRequested /\ [][EntriesKept]_vars

C19_Witness ==
    /\ c.state = "done"
    /\ DOMAIN lastReset = IPs
    /\ DOMAIN requests = IPs
    /\ \E ip \in IPs : Len(log[ip]) >= 2 /\ lastReset[ip] > log[ip][1].t

(***************************************************************************)
(* The admin routes served concurrently: every worker runs the chain       *)
(* AuthMiddleware, RequireRole, handler on its own context; the handlers   *)
(* and the service reach the store in separate statements, and statements  *)
(* of different requests interleave                                        *)
(***************************************************************************)
AdminRoutes == {"updateRole", "deleteUser"}

\* the engine runs with the secrets set in the environment
SecretsSet == [JWT_SECRET |-> "k1", JWT_REFRESH_SECRET |-> "k1", DB_PORT |-> ""]

\* the worker answers and is free again
Finish(ps, p, status) ==
    [ps EXCEPT ![p] = [NewRequest EXCEPT !.route = ps[p].route,
                                         !.stage = ps[p].pc,
                                         !.param = ps[p].param,
                                         !.db = ps[p].db,
                                         !.status = status]]

\* (mutant) the keys are kept in one place shared by all requests
SetKeysShared(ps, p, keys) == [q \in Procs |-> [ps[q] EXCEPT !.keys = keys]]

\* c.Set on the context of the request
SetKeys(ps, p, keys) == [ps EXCEPT ![p].keys = keys]

\* the body of PUT /auth/password: it does not bind, it carries a current
\* password that is not the stored one, or it carries the stored one
PasswordBodies == {None, "wrong", "right"}

\* strconv.ParseUint(c.Param("id"), 10, 32)
MaxId == MaxUsers + 1
Params == {ToString(n) : n \in 1..MaxId} \cup {"abc"}

ParseUint(x) ==
    IF \E n \in 0..MaxId : ToString(n) = x
    THEN [err |-> FALSE, val |-> CHOOSE n \in 0..MaxId : ToString(n) = x]
    ELSE [err |-> TRUE, val |-> 0]

\* binding:"required,oneof=user admin"
RoleBodies == {RoleAdmin, RoleUser, <<"r", "o", "o", "t">>}
BindRoleOK(role) == role \in {RoleUser, RoleAdmin}

\* (mutant) the handler does not look at the freshly read role
NotAdminSkipped(role) == FALSE

\* currentUser.Role != models.RoleAdmin
NotAdmin(role) == role # RoleAdmin

\* (mutant) an error of the lookup is ignored and the handler goes on
RecheckLookupIgnored(id, lookup, ctx) ==
    LET currentUser == GetByID(GetUint(ctx))
    IN IF id.err THEN 400
       ELSE IF lookup = "down" \/ currentUser.err # None THEN 0
       ELSE IF NotAdmin(currentUser.user.role) THEN 403
       ELSE 0

\* the path id is parsed, then the acting user is read back from the store
\* (`lookup`: whether the store answers) and must be admin there: the status
\* of the request when it stops here, 0 when the handler goes on
Recheck(id, lookup, ctx) ==
    LET currentUser == GetByID(GetUint(ctx))
    IN IF id.err THEN 400
       ELSE IF lookup = "down" \/ currentUser.err # None THEN 500
       ELSE IF NotAdmin(currentUser.user.role) THEN 403
       ELSE 0

\* how the store answers one statement
StoreAnswers == {"ok", "down"}

\* the statement of the worker came back with an error of the store: the
\* handler answers `status` and nothing is written
Failed(ps, p, status) == Finish([ps EXCEPT ![p].db = "down"], p, status)

\* a client logs in and sends the token it got to an admin route or to
\* PUT /auth/password (the path parameter and the body are drawn where the
\* handler reads them)
AdminArrive(p) ==
    /\ engine = "admin"
    /\ procs[p].pc = "idle"
    /\ \E actor \in DOMAIN users, route \in AdminRoutes \cup {"updatePassword"} :
          /\ users[actor].present
          /\ procs' = [procs EXCEPT ![p] =
                [NewRequest EXCEPT
                    !.pc = "AuthMiddleware",
                    !.route = route,
                    !.token = generateAccessToken(actor, users[actor], now)]]
    /\ UNCHANGED <<now, throttleVars, workerVars, c, authVars,
                   wishlists, reviews, conn>>

\* AuthMiddleware on the worker's context, the header being "Bearer <token>"
AuthMiddlewareOf(p) ==
    /\ engine = "admin"
    /\ procs[p].pc = "AuthMiddleware"
    /\ LET cfg == LoadConfig
           tok == procs[p].token
       IN procs' =
             IF cfg.err THEN Finish(procs, p, 500)
             ELSE IF ~jwtParse(tok, cfg.JWTSecret, now) THEN Finish(procs, p, 401)
             ELSE IF ~ClaimsOK(tok) THEN Finish(procs, p, 401)
             ELSE SetKeys([procs EXCEPT ![p].pc =
                               IF procs[p].route = "updatePassword"
                               THEN "UpdatePassword" ELSE "RequireRole"], p,
                          [userID |-> Num(tok.user_id.num),
                           email |-> tok.email,
                           role |-> tok.role])
    /\ UNCHANGED <<now, throttleVars, workerVars, c, authVars,
                   wishlists, reviews, conn>>

\* RequireRole(models.RoleAdmin) on the worker's context
RequireRoleOf(p) ==
    /\ engine = "admin"
    /\ procs[p].pc = "RequireRole"
    /\ LET roleValue == procs[p].keys.role
       IN procs' =
             IF roleValue.type # "string" THEN Finish(procs, p, 403)
             ELSE IF EqualFold(roleValue.str, RoleAdmin)
             THEN [procs EXCEPT ![p].pc = "handler"]
             ELSE Finish(procs, p, 403)
    /\ UNCHANGED <<now, throttleVars, workerVars, c, authVars,
                   wishlists, reviews, conn>>

\* UpdateUserRole and DeleteUser up to the call of the service: the path id
\* is parsed, the acting user is read back from the store and must be admin
\* there, then UpdateUserRole binds its body
AdminRecheck(p) ==
    /\ engine = "admin"
    /\ procs[p].pc = "handler"
    /\ \E param \in Params, role \in RoleBodies, lookup \in StoreAnswers :
          LET userID == ParseUint(param)
              denied == Recheck(userID, lookup, procs[p])
              p1 == [procs EXCEPT ![p].userID = GetUint(procs[p]),
                                  ![p].param = param,
                                  ![p].id = userID.val,
                                  ![p].db = IF userID.err THEN None ELSE lookup]
          IN /\ procs[p].route = "deleteUser" => role = RoleUser
             /\ procs' =
                   IF denied # 0 THEN Finish(p1, p, denied)
                   ELSE IF procs[p].route = "updateRole" /\ ~BindRoleOK(role)
                   THEN Finish(p1, p, 400)
                   ELSE [p1 EXCEPT ![p].pc = "service", ![p].param = None,
                                   ![p].db = None,
                                   ![p].role = IF procs[p].route = "updateRole"
                                               THEN role ELSE <<>>]
    /\ UNCHANGED <<now, throttleVars, workerVars, c, authVars,
                   wishlists, reviews, conn>>

\* AuthService.UpdateUserRole and AuthService.DeleteUser up to the write:
\* the target is read (no row: 404, any other error: 500), and DeleteUser
\* refuses an admin
AdminLoad(p) ==
    /\ engine = "admin"
    /\ procs[p].pc = "service"
    /\ \E load \in StoreAnswers :
          LET user == GetByID(procs[p].id)
          IN procs' =
                IF load = "down" THEN Finish(procs, p, 500)
                ELSE IF user.err # None THEN Finish(procs, p, 404)
                ELSE IF procs[p].route = "deleteUser" /\ user.user.role = RoleAdmin
                THEN Finish(procs, p, 403)
                ELSE [procs EXCEPT ![p].pc = "write"]
    /\ UNCHANGED <<now, throttleVars, workerVars, c, authVars,
                   wishlists, reviews, conn>>

\* UserRepository.UpdateFields and UserRepository.Delete: one statement on
\* the row with that id (no row, no change, no error); an error of the
\* store is answered 500
AdminWrite(p) ==
    /\ engine = "admin"
    /\ procs[p].pc = "write"
    /\ \E write \in StoreAnswers :
          LET id == procs[p].id
          IN IF write = "down"
             THEN /\ procs' = Finish(procs, p, 500)
                  /\ UNCHANGED users
             ELSE /\ users' =
                        IF ~(id \in DOMAIN users /\ users[id].present) THEN users
                        ELSE IF procs[p].route = "updateRole"
                        THEN [users EXCEPT ![id].role = procs[p].role]
                        ELSE [users EXCEPT ![id].present = FALSE]
                  /\ procs' = Finish(procs, p, 200)
    /\ UNCHANGED <<now, throttleVars, workerVars, c, engine, env, sessions,
                   wishlists, reviews, conn>>

\* gorm:"unique" on username and on email: the table refuses a row whose
\* username or email another row holds (soft-deleted rows are rows)
UniqueViolation(id, name, email) ==
    \E u \in DOMAIN users \ {id} :
        \/ name # <<>> /\ users[u].username = name
        \/ email # <<>> /\ users[u].email = email

\* UpdatePassword up to the call of the service: the body is bound, then the
\* acting user is read from the store
UpdatePasswordOf(p) ==
    /\ engine \in {"admin", "accounts"}
    /\ procs[p].pc = "UpdatePassword"
    /\ \E body \in PasswordBodies, lookup \in StoreAnswers :
          LET userID == GetUint(procs[p])
              p1 == [procs EXCEPT ![p].userID = userID, ![p].id = userID,
                                  ![p].password = body]
          IN /\ body = None => lookup = "ok"
             /\ procs' = IF body = None THEN Finish(procs, p, 400)
                         ELSE IF lookup = "down" THEN Failed(p1, p, 500)
                         ELSE IF GetByID(userID).err # None THEN Finish(p1, p, 500)
                         ELSE [p1 EXCEPT ![p].pc = "passwordLoad"]
    /\ UNCHANGED <<now, throttleVars, workerVars, c, authVars,
                   wishlists, reviews, conn>>

\* AuthService.UpdatePassword up to the write: the user is read again into a
\* struct (any error of the read is answered 400) and the current password
\* is compared with the one of the struct
UpdatePasswordLoad(p) ==
    /\ engine \in {"admin", "accounts"}
    /\ procs[p].pc = "passwordLoad"
    /\ \E load \in StoreAnswers :
          LET user == GetByID(procs[p].id)
          IN procs' = IF load = "down" THEN Failed(procs, p, 400)
                      ELSE IF user.err # None THEN Finish(procs, p, 400)
                      ELSE IF procs[p].password # "right" THEN Finish(procs, p, 400)
                      ELSE [procs EXCEPT ![p].pc = "save", ![p].row = user.user]
    /\ UNCHANGED <<now, throttleVars, workerVars, c, authVars,
                   wishlists, reviews, conn>>

\* UserRepository.Update: db.Save writes every column of the struct read
\* before to the row with its id (username, email and role among them); an
\* error of the table is answered 400.  When the row is soft-deleted by now
\* the update touches no row: the library then either leaves it at that or
\* inserts the struct, overwriting the row on the conflict of the key
\* (`upsert`), which depends on the gorm release the build links
UpdatePasswordSave(p) ==
    /\ engine \in {"admin", "accounts"}
    /\ procs[p].pc = "save"
    /\ LET id == procs[p].id
           row == procs[p].row
           p1 == [procs EXCEPT ![p].row = NoUser]
       IN \E upsert \in BOOLEAN, save \in StoreAnswers :
             IF save = "down"
             THEN /\ ~upsert
                  /\ procs' = Failed(p1, p, 400)
                  /\ UNCHANGED users
             ELSE IF ~users[id].present /\ ~upsert
             THEN /\ procs' = Finish(p1, p, 200)
                  /\ UNCHANGED users
             ELSE IF UniqueViolation(id, row.username, row.email)
             THEN /\ procs' = Finish(p1, p, 400)
                  /\ UNCHANGED users
             ELSE /\ users' = [users EXCEPT ![id] = row]
                  /\ procs' = Finish(p1, p, 200)
    /\ UNCHANGED <<now, throttleVars, workerVars, c, engine, env, sessions,
                   wishlists, reviews, conn>>

InitAdmin ==
    /\ Started
    /\ engine = "admin"
    /\ limit = 0
    /\ window = 1
    /\ env = SecretsSet

NextAdmin ==
    \/ NextDay
    \/ \E p \in Procs :
        \/ AdminArrive(p)
        \/ AuthMiddlewareOf(p)
        \/ RequireRoleOf(p)
        \/ AdminRecheck(p)
        \/ AdminLoad(p)
        \/ AdminWrite(p)
        \/ UpdatePasswordOf(p)
        \/ UpdatePasswordLoad(p)
        \/ UpdatePasswordSave(p)

SpecAdmin == InitAdmin /\ [][NextAdmin]_vars

(***************************************************************************)
(* Properties of the freshness re-check and of sessions, under every       *)
(* interleaving of the admin requests                                      *)
(***************************************************************************)
\* the acting user of the request, as its handler reads it from the context
ActingUser(p) == GetUint(procs[p])

\* the handler of an admin route is about to run for a request whose token
\* carries the role admin while the store no longer holds its user as an
\* admin
StaleAdminRequest(p) ==
    /\ procs[p].pc = "handler"
    /\ procs[p].token.role = Str(RoleAdmin)
    /\ procs[p].keys.role = Str(RoleAdmin)
    /\ ActingUser(p) \in UserIds
    /\ ~(users[ActingUser(p)].present /\ users[ActingUser(p)].role = RoleAdmin)

\* the worker takes a step of its request
Steps(p) == procs'[p] # procs[p]

\* the request ended in its handler, before the service was called
EndsInHandler(p, status) ==
    /\ procs'[p].pc = "idle"
    /\ procs'[p].stage = "handler"
    /\ procs'[p].status = status
    /\ users' = users

\* C3 (as stated): after a demotion from admin to user, every UpdateUserRole
\* or DeleteUser request made with the stale admin token is answered 403 and
\* changes no user record.
C3_StaleTokenAlways403 ==
    [][\A p \in Procs :
          (StaleAdminRequest(p) /\ Steps(p)) => EndsInHandler(p, 403)]_vars

\* C3 (amended): such a request changes no user record and is denied: 400
\* when the path id is not an unsigned integer, 500 when the acting user
\* cannot be read from the store, 403 otherwise.
C3_StaleTokenDenied ==
    [][\A p \in Procs :
          (StaleAdminRequest(p) /\ Steps(p)) =>
              EndsInHandler(p,
                 IF ParseUint(procs'[p].param).err THEN 400
                 ELSE IF procs'[p].db = "down" \/ ~users[ActingUser(p)].present
                 THEN 500
                 ELSE 403)]_vars

\* a request that passed RequireRole with its token was answered 403 by its
\* handler, its user being an ordinary user in the store
C3_Witness ==
    \E p \in Procs :
        /\ procs[p].pc = "idle"
        /\ procs[p].route \in AdminRoutes
        /\ procs[p].stage = "handler"
        /\ procs[p].db = "ok"
        /\ procs[p].status = 403

\* the path id was accepted and the read of the acting user failed: the
\* store did not answer, or it no longer holds the user
LookupFailed(p) ==
    /\ procs[p].pc = "handler"
    /\ Steps(p)
    /\ ~ParseUint(procs'[p].param).err
    /\ \/ procs'[p].db = "down"
       \/ ActingUser(p) \notin UserIds
       \/ ~users[ActingUser(p)].present

\* C14: when the lookup of the acting user fails during the re-check of
\* UpdateUserRole or DeleteUser the request is answered 500, the store is
\* not consulted again and no role update or deletion is performed.
C14_LookupFailureIs500 ==
    [][\A p \in Procs : LookupFailed(p) => EndsInHandler(p, 500)]_vars

\* the store was down for an acting user who is an admin there and who
\* asked to delete an ordinary user
C14_Witness ==
    \E p \in Procs :
        /\ procs[p].pc = "idle"
        /\ procs[p].route = "deleteUser"
        /\ procs[p].stage = "handler"
        /\ procs[p].db = "down"
        /\ procs[p].param = "2"
        /\ procs[p].status = 500
        /\ users[2].present /\ users[2].role = RoleUser

\* AuthMiddleware is about to look at a token before the token's own expiry
LiveToken(p) ==
    /\ procs[p].pc = "AuthMiddleware"
    /\ now < procs[p].token.exp.num

\* C15: a role change revokes no session: until its own expiry an access
\* token keeps passing AuthMiddleware, and keeps passing the RequireRole gate
\* with the role embedded in it, whatever role the store holds by then.
C15_NoRevocation ==
    [][\A p \in Procs :
          /\ (LiveToken(p) /\ Steps(p)) =>
                /\ procs'[p].pc \in {"RequireRole", "UpdatePassword"}
                /\ procs'[p].keys.role = procs[p].token.role
          /\ (/\ procs[p].pc = "RequireRole"
              /\ procs[p].keys.role = Str(RoleAdmin)
              /\ Steps(p)) => procs'[p].pc = "handler"]_vars

\* the token of a user who was demoted after it was issued went through
\* both gates of a route for admins
C15_Witness ==
    \E p \in Procs :
        /\ procs[p].pc = "handler"
        /\ procs[p].token.role = Str(RoleAdmin)
        /\ now < procs[p].token.exp.num
        /\ users[procs[p].token.user_id.num].present
        /\ users[procs[p].token.user_id.num].role = RoleUser

\* the identity carried by a token
IdentityOf(tok) ==
    [userID |-> Num(tok.user_id.num), email |-> tok.email, role |-> tok.role]

\* the worker has passed AuthMiddleware with its present request
Authenticated(p) ==
    procs[p].pc \in {"RequireRole", "handler", "service", "write",
                     "UpdatePassword", "passwordLoad", "save"}

\* C21: the identity that AuthMiddleware stored for a request is the one of
\* that request's own token, whatever the other requests in flight stored,
\* and the user id the handler read from its context is the one of its token
C21_OwnIdentity ==
    \A p \in Procs :
        /\ Authenticated(p) => procs[p].keys = IdentityOf(procs[p].token)
        /\ procs[p].pc \in {"service", "write", "passwordLoad", "save"} =>
              procs[p].userID = procs[p].token.user_id.num

\* two requests with tokens of different users are both past AuthMiddleware,
\* one of them already in its handler
C21_Witness ==
    /\ Authenticated("p1")
    /\ procs["p2"].pc = "service"
    /\ procs["p1"].token.user_id # procs["p2"].token.user_id

\* C22: a login at time t stores an access token that carries the id, the
\* email and the role the user has at t and expires at t + 24 hours (one
\* tick), and a refresh token that carries the id alone and expires at
\* t + 7 days
C22_TokenContents ==
    [][\A x \in SessionIds :
          sessions'[x] # sessions[x] =>
              \E u \in DOMAIN users :
                  /\ users[u].present
                  /\ sessions'[x][1].user_id = Num(u)
                  /\ sessions'[x][1].email = Str(users[u].email)
                  /\ sessions'[x][1].role = Str(users[u].role)
                  /\ sessions'[x][1].exp = Num(now + 1)
                  /\ sessions'[x][2].user_id = Num(u)
                  /\ sessions'[x][2].email = Absent
                  /\ sessions'[x][2].role = Absent
                  /\ sessions'[x][2].exp = Num(now + 7)]_vars

\* the regular user logged in on day 1 and was answered 200
C22_Witness ==
    /\ Ran(c, "Login")
    /\ c.status = 200
    /\ now = 1
    /\ \E x \in SessionIds :
          /\ sessions[x] # <<>>
          /\ sessions[x][1].user_id = Num(2)
          /\ sessions[x][1].exp = Num(2)

\* the worker is about to execute the write of its admin request (the
\* write is executed when the request is answered 200)
AboutToWrite(p) == procs[p].pc = "write"

\* C23: a role update or a deletion is written only while the acting user
\* is an admin in the store at the moment of the write, under every
\* interleaving of the admin requests
C23_WriteOnlyByAdmin ==
    [][\A p \in Procs :
          (AboutToWrite(p) /\ procs'[p].pc = "idle" /\ procs'[p].status = 200) =>
              /\ procs[p].userID \in DOMAIN users
              /\ users[procs[p].userID].present
              /\ users[procs[p].userID].role = RoleAdmin]_vars

\* C26: DeleteUser never removes a user whose role is admin at the moment
\* of the deletion, also when the target is promoted between the role check
\* of the service and its delete
C26_AdminNeverDeleted ==
    [][\A u \in DOMAIN users :
          (users[u].present /\ ~users'[u].present) => users[u].role # RoleAdmin]_vars

\* C24: in every configuration an access token returned by Login passes
\* AuthMiddleware at any time before its expiry, and the identity stored in
\* the context is the id, email and role written into the token
C24_LoginTokenAccepted ==
    (/\ Presented(c)
     /\ c.header[2] \in IssuedAccess
     /\ c.vt < c.header[2].exp.num) =>
        /\ c.failed # "AuthMiddleware"
        /\ c.keys = [userID |-> Num(c.header[2].user_id.num),
                     email |-> c.header[2].email,
                     role |-> c.header[2].role]

(***************************************************************************)
(* Register and UpdateUser served concurrently.  UserRepository.Create     *)
(* counts the rows with the username, counts the rows with the email and   *)
(* inserts, in three statements; UpdateUser checks both and updates later; *)
(* UpdatePassword saves the whole row it read before.                      *)
(* The table itself carries the unique constraints of models.User.         *)
(***************************************************************************)
Usernames == {<<"user_test">>, <<"neo">>}
UserEmails == {<<"user@soa.com">>, <<"neo@soa.com">>}

\* the other fields of a registration request, by the first check of
\* Register they fail: ShouldBindJSON (a required field is missing, the
\* username is shorter than 3, the email is none, the password is shorter
\* than 6), password # confirm_password, a username, email or full_name
\* that is empty once trimmed; or they pass all three
RegisterForms == {"unbound", "mismatch", "blank", "ok"}

\* a JSON body by ShouldBindJSON: it does not bind (malformed JSON, a field
\* of the wrong type, a field that breaks its binding tag, as a username
\* shorter than 3 or an email that is none) or it binds
Bodies == {"unbound", "ok"}

\* the role of a registration request: none, user, admin, anything else
RegisterRoles == {<<>>, RoleUser, RoleAdmin, <<"r", "o", "o", "t">>}

\* (mutant) the requested role is taken as it is
RoleDecisionAsGiven(role) ==
    IF role = <<>> THEN [status |-> 0, role |-> RoleUser]
    ELSE IF role \in {RoleUser, RoleAdmin} THEN [status |-> 0, role |-> role]
    ELSE [status |-> 400, role |-> RoleUser]

\* the role switch of Register: the answer when the request stops there,
\* and the role of the user to create
RoleDecision(role) ==
    IF role = <<>> \/ role = RoleUser THEN [status |-> 0, role |-> RoleUser]
    ELSE IF role = RoleAdmin THEN [status |-> 403, role |-> RoleUser]
    ELSE [status |-> 400, role |-> RoleUser]

\* gorm queries see the rows that are not soft-deleted
UsernameExists(name) == \E u \in DOMAIN users : users[u].present /\ users[u].username = name
EmailExists(email) == \E u \in DOMAIN users : users[u].present /\ users[u].email = email

\* the primary key given to the next inserted row
NextUserId == (CHOOSE m \in DOMAIN users : \A u \in DOMAIN users : u <= m) + 1

\* a request to POST /auth/register (no middleware), or to PUT /auth/me or
\* PUT /auth/password by a client that logged in and passed AuthMiddleware;
\* an empty username or email is a field the body of PUT /auth/me does not
\* carry, and of a body that does not bind no field is read
AccountsArrive(p) ==
    /\ engine = "accounts"
    /\ procs[p].pc = "idle"
    /\ \/ \E name \in Usernames, email \in UserEmails, role \in RegisterRoles,
             form \in RegisterForms :
             procs' = [procs EXCEPT ![p] =
                [NewRequest EXCEPT !.pc = "Register", !.route = "register",
                                 !.username = name, !.email = email,
                                 !.role = role, !.form = form]]
       \/ \E actor \in DOMAIN users, name \in {<<>>, <<"neo">>},
             email \in {<<>>, <<"neo@soa.com">>}, form \in Bodies :
             /\ users[actor].present
             /\ form = "unbound" => name = <<>> /\ email = <<>>
             /\ procs' = [procs EXCEPT ![p] =
                   [NewRequest EXCEPT
                       !.pc = "UpdateUser", !.route = "updateMe",
                       !.token = generateAccessToken(actor, users[actor], now),
                       !.keys = [userID |-> Num(actor),
                                 email |-> Str(users[actor].email),
                                 role |-> Str(users[actor].role)],
                       !.username = name, !.email = email, !.form = form]]
       \/ \E actor \in DOMAIN users :
             /\ users[actor].present
             /\ procs' = [procs EXCEPT ![p] =
                   [NewRequest EXCEPT
                       !.pc = "UpdatePassword", !.route = "updatePassword",
                       !.token = generateAccessToken(actor, users[actor], now),
                       !.keys = [userID |-> Num(actor),
                                 email |-> Str(users[actor].email),
                                 role |-> Str(users[actor].role)]]]
    /\ UNCHANGED <<now, throttleVars, workerVars, c, authVars,
                   wishlists, reviews, conn>>

\* Register up to the call of Create: the body is bound, the passwords are
\* compared, the trimmed username, email and full name must not be empty
\* (400 each), then the role switch
RegisterOf(p) ==
    /\ engine = "accounts"
    /\ procs[p].pc = "Register"
    /\ LET decided == RoleDecision(procs[p].role)
       IN procs' =
             IF procs[p].form = "unbound" THEN Finish(procs, p, 400)
             ELSE IF procs[p].form = "mismatch" THEN Finish(procs, p, 400)
             ELSE IF procs[p].form = "blank" THEN Finish(procs, p, 400)
             ELSE IF decided.status # 0 THEN Finish(procs, p, decided.status)
             ELSE [procs EXCEPT ![p].pc = "countUsername"]
    /\ UNCHANGED <<now, throttleVars, workerVars, c, authVars,
                   wishlists, reviews, conn>>

\* Create: the count of the username; an error of the count is answered
\* 500 by Register
CreateCountUsername(p) ==
    /\ engine = "accounts"
    /\ procs[p].pc = "countUsername"
    /\ \E count \in StoreAnswers :
          procs' = IF count = "down" THEN Failed(procs, p, 500)
                   ELSE IF UsernameExists(procs[p].username)
                   THEN Finish(procs, p, 409)
                   ELSE [procs EXCEPT ![p].pc = "countEmail"]
    /\ UNCHANGED <<now, throttleVars, workerVars, c, authVars,
                   wishlists, reviews, conn>>

\* Create: the count of the email; an error of the count is answered 500
\* by Register
CreateCountEmail(p) ==
    /\ engine = "accounts"
    /\ procs[p].pc = "countEmail"
    /\ \E count \in StoreAnswers :
          procs' = IF count = "down" THEN Failed(procs, p, 500)
                   ELSE IF EmailExists(procs[p].email)
                   THEN Finish(procs, p, 409)
                   ELSE [procs EXCEPT ![p].pc = "insert"]
    /\ UNCHANGED <<now, throttleVars, workerVars, c, authVars,
                   wishlists, reviews, conn>>

\* Create: the insert; an error of the store or of the table (a unique key
\* taken by now) is answered 500 by Register
CreateInsert(p) ==
    /\ engine = "accounts"
    /\ procs[p].pc = "insert"
    /\ \E insert \in StoreAnswers :
          LET id == NextUserId
              row == [present |-> TRUE, username |-> procs[p].username,
                      email |-> procs[p].email,
                      role |-> RoleDecision(procs[p].role).role]
          IN IF insert = "down"
             THEN /\ procs' = Failed(procs, p, 500)
                  /\ UNCHANGED users
             ELSE IF UniqueViolation(id, procs[p].username, procs[p].email)
             THEN /\ procs' = Finish(procs, p, 500)
                  /\ UNCHANGED users
             ELSE /\ users' = [u \in DOMAIN users \cup {id} |->
                                  IF u = id THEN row ELSE users[u]]
                  /\ procs' = Finish(procs, p, 201)
    /\ UNCHANGED <<now, throttleVars, workerVars, c, engine, env, sessions,
                   wishlists, reviews, conn>>

\* UpdateUser up to the checks: the body is bound (400 before the store is
\* reached), then the acting user is read from the store (any error: 500)
UpdateUserOf(p) ==
    /\ engine = "accounts"
    /\ procs[p].pc = "UpdateUser"
    /\ \E lookup \in StoreAnswers :
          LET userID == GetUint(procs[p])
              p1 == [procs EXCEPT ![p].userID = userID, ![p].id = userID]
          IN /\ procs[p].form = "unbound" => lookup = "ok"
             /\ procs' = IF procs[p].form = "unbound" THEN Finish(procs, p, 400)
                         ELSE IF lookup = "down" THEN Failed(p1, p, 500)
                         ELSE IF GetByID(userID).err # None
                         THEN Finish(p1, p, 500)
                         ELSE [p1 EXCEPT ![p].pc = "checkUsername"]
    /\ UNCHANGED <<now, throttleVars, workerVars, c, authVars,
                   wishlists, reviews, conn>>

\* UpdateUser: CheckUserNameExists, when the body carries a username; an
\* error of the lookup is answered 500, a user of that name 400
CheckUserNameExists(p) ==
    /\ engine = "accounts"
    /\ procs[p].pc = "checkUsername"
    /\ \E lookup \in StoreAnswers :
          /\ procs[p].username = <<>> => lookup = "ok"
          /\ procs' = IF procs[p].username = <<>>
                      THEN [procs EXCEPT ![p].pc = "checkEmail"]
                      ELSE IF lookup = "down" THEN Failed(procs, p, 500)
                      ELSE IF UsernameExists(procs[p].username)
                      THEN Finish(procs, p, 400)
                      ELSE [procs EXCEPT ![p].pc = "checkEmail"]
    /\ UNCHANGED <<now, throttleVars, workerVars, c, authVars,
                   wishlists, reviews, conn>>

\* UpdateUser: CheckEmailExists, when the body carries an email; an error
\* of the lookup is answered 500, a user of that email 400
CheckEmailExists(p) ==
    /\ engine = "accounts"
    /\ procs[p].pc = "checkEmail"
    /\ \E lookup \in StoreAnswers :
          /\ procs[p].email = <<>> => lookup = "ok"
          /\ procs' = IF procs[p].email = <<>>
                      THEN [procs EXCEPT ![p].pc = "load"]
                      ELSE IF lookup = "down" THEN Failed(procs, p, 500)
                      ELSE IF EmailExists(procs[p].email)
                      THEN Finish(procs, p, 400)
                      ELSE [procs EXCEPT ![p].pc = "load"]
    /\ UNCHANGED <<now, throttleVars, workerVars, c, authVars,
                   wishlists, reviews, conn>>

\* AuthService.UpdateUser up to the write: the user is read again (any
\* error of the read is answered 400); with no field to update nothing is
\* written
UpdateUserLoad(p) ==
    /\ engine = "accounts"
    /\ procs[p].pc = "load"
    /\ \E load \in StoreAnswers :
          procs' = IF load = "down" THEN Failed(procs, p, 400)
                   ELSE IF GetByID(procs[p].id).err # None THEN Finish(procs, p, 400)
                   ELSE IF procs[p].username = <<>> /\ procs[p].email = <<>>
                   THEN Finish(procs, p, 200)
                   ELSE [procs EXCEPT ![p].pc = "update"]
    /\ UNCHANGED <<now, throttleVars, workerVars, c, authVars,
                   wishlists, reviews, conn>>

\* UserRepository.UpdateFields: one statement on the row with that id; an
\* error of the store or of the table is answered 400 by UpdateUser
UpdateFieldsOf(p) ==
    /\ engine = "accounts"
    /\ procs[p].pc = "update"
    /\ \E update \in StoreAnswers :
          LET id == procs[p].id
              name == procs[p].username
              email == procs[p].email
          IN IF update = "down"
             THEN /\ procs' = Failed(procs, p, 400)
                  /\ UNCHANGED users
             ELSE IF ~users[id].present
             THEN /\ procs' = Finish(procs, p, 200)
                  /\ UNCHANGED users
             ELSE IF UniqueViolation(id, name, email)
             THEN /\ procs' = Finish(procs, p, 400)
                  /\ UNCHANGED users
             ELSE /\ users' = [users EXCEPT
                                 ![id].username = IF name # <<>> THEN name ELSE @,
                                 ![id].email = IF email # <<>> THEN email ELSE @]
                  /\ procs' = Finish(procs, p, 200)
    /\ UNCHANGED <<now, throttleVars, workerVars, c, engine, env, sessions,
                   wishlists, reviews, conn>>

InitAccounts ==
    /\ Started
    /\ engine = "accounts"
    /\ limit = 0
    /\ window = 1
    /\ env = SecretsSet

NextAccounts ==
    \E p \in Procs :
        \/ AccountsArrive(p)
        \/ RegisterOf(p)
        \/ CreateCountUsername(p)
        \/ CreateCountEmail(p)
        \/ CreateInsert(p)
        \/ UpdateUserOf(p)
        \/ CheckUserNameExists(p)
        \/ CheckEmailExists(p)
        \/ UpdateUserLoad(p)
        \/ UpdateFieldsOf(p)
        \/ UpdatePasswordOf(p)
        \/ UpdatePasswordLoad(p)
        \/ UpdatePasswordSave(p)

SpecAccounts == InitAccounts /\ [][NextAccounts]_vars

\* Register answers a request or hands it to Create
RegisterDecided(p) ==
    /\ procs[p].pc = "Register"
    /\ procs'[p].pc # "Register"

Rejected(p, status) ==
    /\ procs'[p].pc = "idle"
    /\ procs'[p].status = status
    /\ users' = users

\* every row that is inserted has role user
InsertedAsUser ==
    \A u \in DOMAIN users' :
        u \notin DOMAIN users => users'[u].present /\ users'[u].role = RoleUser

\* C25 (as stated): Register never creates an admin: a request naming role
\* admin is answered 403 and creates no user, a request naming any other
\* role than user is answered 400 and creates no user, and every row
\* Register inserts has role user
C25_AdminAlways403 ==
    [][/\ \A p \in Procs :
             RegisterDecided(p) =>
                /\ procs[p].role = RoleAdmin => Rejected(p, 403)
                /\ procs[p].role \notin {<<>>, RoleUser, RoleAdmin} => Rejected(p, 400)
       /\ InsertedAsUser]_vars

\* C25 (amended): a request naming role admin creates no user and is
\* answered 403 when its other fields pass the validation of Register
\* (binding, equal passwords, no blank username, email or full name) and
\* 400 when they do not; a request naming any other role than user is
\* answered 400 and creates no user; every row Register inserts has role
\* user
C25_RegisterNeverAdmin ==
    [][/\ \A p \in Procs :
             RegisterDecided(p) =>
                /\ procs[p].role = RoleAdmin =>
                      Rejected(p, IF procs[p].form = "ok" THEN 403 ELSE 400)
                /\ procs[p].role \notin {<<>>, RoleUser, RoleAdmin} => Rejected(p, 400)
       /\ InsertedAsUser]_vars

\* one registration was answered 403 by the role switch, another one
\* created a user, and the table holds no admin beyond the seeded one
C25_Witness ==
    /\ procs["p1"].route = "register"
    /\ procs["p1"].pc = "idle"
    /\ procs["p1"].stage = "Register"
    /\ procs["p1"].status = 403
    /\ procs["p2"].route = "register"
    /\ procs["p2"].status = 201
    /\ \E u \in DOMAIN users :
          u \notin UserIds /\ users[u].present /\ users[u].role = RoleUser
    /\ \A u \in DOMAIN users : users[u].role = RoleAdmin => u = 1

\* no two stored users share a username or an email
UniqueAccounts ==
    \A u, v \in DOMAIN users :
        (u # v /\ users[u].present /\ users[v].present) =>
            /\ users[u].username # users[v].username
            /\ users[u].email # users[v].email

\* another stored user holds the username or the email of the request
WouldDuplicate(p) ==
    \E u \in DOMAIN users \ {procs[p].id} :
        /\ users[u].present
        /\ \/ procs[p].username # <<>> /\ users[u].username = procs[p].username
           \/ procs[p].email # <<>> /\ users[u].email = procs[p].email

\* a request that ends at a check or at its write, the store having
\* answered the statement, while it would introduce a duplicate is answered
\* 409 or 400 and changes nothing
DuplicateRejected ==
    \A p \in Procs :
        (/\ procs[p].pc \in {"countUsername", "countEmail", "insert",
                             "checkUsername", "checkEmail", "update"}
         /\ procs'[p].pc = "idle"
         /\ procs'[p].db # "down"
         /\ WouldDuplicate(p)) =>
            /\ procs'[p].status \in {409, 400}
            /\ users' = users

\* C27: under every interleaving of Register and UpdateUser no two stored
\* users share a username or an email, and a request that would introduce a
\* duplicate is rejected with 409 or 400 and leaves the store unchanged
C27_NoDuplicates == []UniqueAccounts /\ [][DuplicateRejected]_vars

(***************************************************************************)
(* The wishlist and review routes served concurrently: AddToWishlist and   *)
(* CreateReview look for a row of the pair (user, product) and create one  *)
(* in a later statement; RemoveFromWishlist and DeleteReview delete rows;  *)
(* the tables wishlists and reviews carry no unique constraint on the pair *)
(***************************************************************************)
\* the catalogue holds product 1; a request may also name a product that
\* does not exist
Products == {1}
ProductIds == {1, 2}

\* c.Param("product_id"): the numeral of a product id, or no numeral
ProductParams == {ToString(n) : n \in ProductIds} \cup {"abc"}

\* the ids a DELETE /reviews/:id may name: the reviews table gives its rows
\* the ids 1, 2, ... and never gives an id twice
ReviewIds == 1..MaxRows

\* c.Param("id") of DELETE /reviews/:id: the numeral of an id, or no numeral
ReviewParams == {ToString(n) : n \in ReviewIds} \cup {"abc"}

Pair(p) == [user |-> procs[p].userID, product |-> procs[p].product]

\* rows of the pair in a table
RowsOf(table, pair) == {i \in DOMAIN table : table[i] = pair}

\* the rows of reviews a query sees, as pairs: deleted rows are left out
LiveReviews(table) ==
    LET live == SelectSeq(table, LAMBDA r : ~r.deleted)
    IN [i \in DOMAIN live |-> [user |-> live[i].user, product |-> live[i].product]]

\* a client that logged in and passed AuthMiddleware sends a request to
\* POST or DELETE /products/wishlist/:product_id (with its path parameter),
\* to POST /reviews (with a body that binds or does not, and its product_id)
\* or to DELETE /reviews/:id (with its path parameter)
ShopArrive(p) ==
    /\ engine = "shop"
    /\ procs[p].pc = "idle"
    /\ \E actor \in DOMAIN users :
          LET arrived == [NewRequest EXCEPT
                             !.token = generateAccessToken(actor, users[actor], now),
                             !.keys = [userID |-> Num(actor),
                                       email |-> Str(users[actor].email),
                                       role |-> Str(users[actor].role)]]
          IN /\ users[actor].present
             /\ \/ \E route \in {"addToWishlist", "removeFromWishlist"},
                      param \in ProductParams :
                      /\ route = "addToWishlist" => Len(wishlists) < MaxRows
                      /\ procs' = [procs EXCEPT ![p] =
                            [arrived EXCEPT !.pc = route, !.route = route,
                                            !.param = param]]
                \/ \E product \in ProductIds, form \in Bodies :
                      /\ Len(reviews) < MaxRows
                      /\ procs' = [procs EXCEPT ![p] =
                            [arrived EXCEPT !.pc = "createReview",
                                            !.route = "createReview",
                                            !.product = product, !.form = form]]
                \/ \E param \in ReviewParams :
                      procs' = [procs EXCEPT ![p] =
                            [arrived EXCEPT !.pc = "deleteReview",
                                            !.route = "deleteReview",
                                            !.param = param]]
    /\ UNCHANGED <<now, throttleVars, workerVars, c, authVars,
                   wishlists, reviews, conn>>

\* AddToWishlist up to the call of the service: the path parameter is parsed
\* (400), then IsProductInWishlist counts the rows of the pair (an error of
\* the count: 500; a row: 200 and nothing is added)
IsProductInWishlist(p) ==
    /\ engine = "shop"
    /\ procs[p].pc = "addToWishlist"
    /\ \E count \in StoreAnswers :
          LET productID == ParseUint(procs[p].param)
              currentUserID == GetUint(procs[p])
              p1 == [procs EXCEPT ![p].userID = currentUserID,
                                  ![p].product = productID.val,
                                  ![p].param = None]
              rows == RowsOf(wishlists,
                             [user |-> currentUserID, product |-> productID.val])
          IN /\ productID.err => count = "ok"
             /\ procs' = IF productID.err THEN Finish(procs, p, 400)
                         ELSE IF count = "down" THEN Failed(p1, p, 500)
                         ELSE IF Cardinality(rows) > 0 THEN Finish(p1, p, 200)
                         ELSE [p1 EXCEPT ![p].pc = "product"]
    /\ UNCHANGED <<now, throttleVars, workerVars, c, authVars,
                   wishlists, reviews, conn>>

\* ProductService.AddToWishlist up to the insert: the product is read and
\* must exist; an error of the read and a missing product are both answered
\* 500 by the handler
AddToWishlistLoad(p) ==
    /\ engine = "shop"
    /\ procs[p].pc = "product"
    /\ \E load \in StoreAnswers :
          procs' = IF load = "down" THEN Failed(procs, p, 500)
                   ELSE IF procs[p].product \notin Products
                   THEN Finish(procs, p, 500)
                   ELSE [procs EXCEPT ![p].pc = "addRow"]
    /\ UNCHANGED <<now, throttleVars, workerVars, c, authVars,
                   wishlists, reviews, conn>>

\* ProductRepository.AddToWishlist: the insert.  An error of db.Create is
\* answered 500 and no row is added: the store is down, or the table is one
\* that was not made by AutoMigrate from models.Wishlist (which declares no
\* unique key) but with a unique key on the pair, and holds the pair by now
AddToWishlistCreate(p) ==
    /\ engine = "shop"
    /\ procs[p].pc = "addRow"
    /\ \E create \in StoreAnswers :
          IF create = "down"
          THEN /\ procs' = Failed(procs, p, 500)
               /\ UNCHANGED wishlists
          ELSE /\ wishlists' = Append(wishlists, Pair(p))
               /\ procs' = Finish(procs, p, 200)
    /\ UNCHANGED <<now, throttleVars, workerVars, c, authVars, reviews, conn>>

\* RemoveFromWishlist: the path parameter is parsed (400), then one
\* statement deletes every row of the pair (user of the token, product of
\* the path), whether or not there is one; an error of the statement is
\* answered 500 and nothing is deleted
RemoveFromWishlist(p) ==
    /\ engine = "shop"
    /\ procs[p].pc = "removeFromWishlist"
    /\ \E delete \in StoreAnswers :
          LET productID == ParseUint(procs[p].param)
              currentUserID == GetUint(procs[p])
              p1 == [procs EXCEPT ![p].userID = currentUserID,
                                  ![p].product = productID.val,
                                  ![p].param = None]
              pair == [user |-> currentUserID, product |-> productID.val]
          IN /\ productID.err => delete = "ok"
             /\ IF productID.err
                THEN /\ procs' = Finish(procs, p, 400)
                     /\ UNCHANGED wishlists
                ELSE IF delete = "down"
                THEN /\ procs' = Failed(p1, p, 500)
                     /\ UNCHANGED wishlists
                ELSE /\ wishlists' = SelectSeq(wishlists, LAMBDA r : r # pair)
                     /\ procs' = Finish(p1, p, 200)
    /\ UNCHANGED <<now, throttleVars, workerVars, c, authVars, reviews, conn>>

\* CreateReview up to the insert: the body is bound (400), then
\* GetByUserAndProduct looks for a review of the pair (an error other than
\* "no row": 500; a row: 409)
CreateReviewCheck(p) ==
    /\ engine = "shop"
    /\ procs[p].pc = "createReview"
    /\ \E lookup \in StoreAnswers :
          LET p1 == [procs EXCEPT ![p].userID = GetUint(procs[p])]
              existing == RowsOf(LiveReviews(reviews),
                           [user |-> GetUint(procs[p]), product |-> procs[p].product])
          IN /\ procs[p].form = "unbound" => lookup = "ok"
             /\ procs' = IF procs[p].form = "unbound" THEN Finish(procs, p, 400)
                         ELSE IF lookup = "down" THEN Failed(p1, p, 500)
                         ELSE IF existing # {} THEN Finish(p1, p, 409)
                         ELSE [p1 EXCEPT ![p].pc = "reviewRow"]
    /\ UNCHANGED <<now, throttleVars, workerVars, c, authVars,
                   wishlists, reviews, conn>>

\* ReviewRepository.Create: the insert; the row must reference a product; an
\* error of the insert is answered 500 and no row is added
CreateReviewCreate(p) ==
    /\ engine = "shop"
    /\ procs[p].pc = "reviewRow"
    /\ \E create \in StoreAnswers :
          IF create = "down"
          THEN /\ procs' = Failed(procs, p, 500)
               /\ UNCHANGED reviews
          ELSE IF procs[p].product \notin Products
          THEN /\ procs' = Finish(procs, p, 500)
               /\ UNCHANGED reviews
          ELSE /\ reviews' = Append(reviews,
                      [user |-> procs[p].userID, product |-> procs[p].product,
                       deleted |-> FALSE])
               /\ procs' = Finish(procs, p, 201)
    /\ UNCHANGED <<now, throttleVars, workerVars, c, authVars, wishlists, conn>>

\* DeleteReview: the path parameter is parsed (400), then the row of that id
\* is deleted, whoever wrote it; an id without a row deletes nothing and is
\* no error; an error of the statement is answered 500 and the row is kept
DeleteReview(p) ==
    /\ engine = "shop"
    /\ procs[p].pc = "deleteReview"
    /\ \E delete \in StoreAnswers :
          LET id == ParseUint(procs[p].param)
              p1 == [procs EXCEPT ![p].id = id.val, ![p].param = None]
          IN /\ id.err => delete = "ok"
             /\ IF id.err
                THEN /\ procs' = Finish(procs, p, 400)
                     /\ UNCHANGED reviews
                ELSE IF delete = "down"
                THEN /\ procs' = Failed(p1, p, 500)
                     /\ UNCHANGED reviews
                ELSE /\ reviews' = [i \in DOMAIN reviews |->
                                      IF i = id.val
                                      THEN [reviews[i] EXCEPT !.deleted = TRUE]
                                      ELSE reviews[i]]
                     /\ procs' = Finish(p1, p, 204)
    /\ UNCHANGED <<now, throttleVars, workerVars, c, authVars, wishlists, conn>>

InitShop ==
    /\ Started
    /\ engine = "shop"
    /\ limit = 0
    /\ window = 1
    /\ env = SecretsSet

NextShop ==
    \E p \in Procs :
        \/ ShopArrive(p)
        \/ IsProductInWishlist(p)
        \/ AddToWishlistLoad(p)
        \/ AddToWishlistCreate(p)
        \/ RemoveFromWishlist(p)
        \/ CreateReviewCheck(p)
        \/ CreateReviewCreate(p)
        \/ DeleteReview(p)

SpecShop == InitShop /\ [][NextShop]_vars

\* a table holds at most one row of every pair
OnePerPair(table) ==
    \A i, j \in DOMAIN table : table[i] = table[j] => i = j

\* the pair a request is about: the user of the token and the product of
\* the path or of the body
Asked(p) ==
    [user |-> GetUint(procs[p]),
     product |-> IF procs[p].param # None THEN ParseUint(procs[p].param).val
                 ELSE procs[p].product]

\* a request with a body that binds, for a pair that the table already
\* holds, ends in `status` and leaves the table as it is, when the store
\* answered its statement
AnsweredAlready(p, route, table, tableAfter, status) ==
    (/\ procs[p].route = route
     /\ procs[p].pc # "idle"
     /\ procs'[p].pc = "idle"
     /\ procs[p].form # "unbound"
     /\ procs'[p].db # "down"
     /\ RowsOf(table, Asked(p)) # {}) =>
        /\ procs'[p].status = status
        /\ tableAfter = table

\* C28: under every interleaving of the wishlist requests a wishlist holds
\* at most one entry per pair of user and product, and adding a product that
\* is in the wishlist already is answered with success and changes nothing
C28_WishlistOnePerPair ==
    /\ []OnePerPair(wishlists)
    /\ [][\A p \in Procs :
            AnsweredAlready(p, "addToWishlist", wishlists, wishlists', 200)]_vars

\* C29: under every interleaving of the review requests there is at most one
\* review per pair of user and product, and a second review of a pair is
\* answered 409 and creates nothing
C29_ReviewOnePerPair ==
    /\ []OnePerPair(LiveReviews(reviews))
    /\ [][\A p \in Procs :
            AnsweredAlready(p, "createReview", LiveReviews(reviews),
                            LiveReviews(reviews'), 409)]_vars

(***************************************************************************)
(* database.Connect (pkg/logger/logger.go:302-367): what the server, the   *)
(* driver and the migration answer is not decided by the program           *)
(***************************************************************************)
maxRetries == 5

\* what one attempt can meet: gorm.Open fails, DB.DB() fails, the ping
\* fails, or the ping succeeds
AttemptOutcomes == {"open failed", "no instance", "ping failed", "alive"}

\* main calls Connect: err is nil and the loop starts with i = 1
ConnectCall ==
    /\ engine = "connect"
    /\ conn.pc = "idle"
    /\ conn' = [conn EXCEPT !.pc = "loop", !.i = 1]
    /\ UNCHANGED <<now, throttleVars, workerVars, c, authVars,
                   procs, wishlists, reviews>>

\* one run of the loop body.  `DB, err = gorm.Open(...)` assigns the err of
\* the function; `sqlDB, err := DB.DB()` and `if err := sqlDB.Ping()`
\* declare their own err inside the block, so a failed ping leaves the
\* function's err as Open left it.  A failed DB.DB() returns at once, a
\* successful ping breaks, anything else logs, sleeps and counts on.
ConnectAttempt ==
    /\ engine = "connect"
    /\ conn.pc = "loop"
    /\ conn.i <= maxRetries
    /\ \E outcome \in AttemptOutcomes :
          LET err == IF outcome = "open failed" THEN "open failed" ELSE None
              c1 == [conn EXCEPT !.err = err,
                                 !.attempts = Append(conn.attempts, outcome)]
          IN conn' =
                IF outcome = "no instance"
                THEN [c1 EXCEPT !.pc = "returned",
                                !.result = "failed to get database instance"]
                ELSE IF outcome = "alive"
                THEN [c1 EXCEPT !.pc = "after"]
                ELSE [c1 EXCEPT !.i = conn.i + 1,
                                !.pc = IF conn.i + 1 <= maxRetries
                                       THEN "loop" ELSE "after"]
    /\ UNCHANGED <<now, throttleVars, workerVars, c, authVars,
                   procs, wishlists, reviews>>

\* if err != nil after the loop
ErrAfterLoop(err) == err # None

\* after the loop: an err that is not nil is returned, otherwise the
\* migration is next
ConnectAfterLoop ==
    /\ engine = "connect"
    /\ conn.pc = "after"
    /\ conn' = IF ErrAfterLoop(conn.err)
               THEN [conn EXCEPT !.pc = "returned",
                                 !.result = "failed to connect to database"]
               ELSE [conn EXCEPT !.pc = "migrate"]
    /\ UNCHANGED <<now, throttleVars, workerVars, c, authVars,
                   procs, wishlists, reviews>>

\* DB.AutoMigrate runs and succeeds or fails
AutoMigrate ==
    /\ engine = "connect"
    /\ conn.pc = "migrate"
    /\ \E ok \in BOOLEAN :
          conn' = [conn EXCEPT !.pc = "returned",
                               !.migrated = TRUE,
                               !.result = IF ok THEN "ok"
                                          ELSE "failed to auto migrate"]
    /\ UNCHANGED <<now, throttleVars, workerVars, c, authVars,
                   procs, wishlists, reviews>>

InitConnect ==
    /\ Started
    /\ engine = "connect"
    /\ limit = 0
    /\ window = 1
    /\ env = NoEnv

NextConnect ==
    \/ ConnectCall
    \/ ConnectAttempt
    \/ ConnectAfterLoop
    \/ AutoMigrate

SpecConnect == InitConnect /\ [][NextConnect]_vars

\* an attempt whose open and ping both succeeded
Alive(i) == conn.attempts[i] = "alive"

NoLiveConnection == \A i \in DOMAIN conn.attempts : ~Alive(i)

\* the bound on the attempts and the stop at the first live connection
AttemptsBounded ==
    /\ Len(conn.attempts) <= 5
    /\ \A i \in DOMAIN conn.attempts : Alive(i) => i = Len(conn.attempts)

\* C30: Connect makes at most 5 attempts, stops at the first attempt whose
\* open and ping both succeed, and when no attempt produced a live
\* connection it runs no migration and returns an error
C30_ConnectOrError ==
    /\ AttemptsBounded
    /\ (conn.pc \in {"migrate", "returned"} /\ NoLiveConnection) =>
          /\ conn.pc # "migrate"
          /\ ~conn.migrated
          /\ conn.result \notin {None, "ok"}
====
